---- MODULE Spec2Model ----
(***************************************************************************)
(* Version-aware transformation pipeline of the JSONata API gateway:       *)
(* the expression cache (LRU with per-entry TTL), the transformation       *)
(* engine (compile-or-fetch, evaluation under a timer, failure policy)     *)
(* and the configuration loader (KV read, validation, default fallback).   *)
(*                                                                         *)
(* Strings whose characters matter (expression sources, cache keys) are    *)
(* sequences of runs [c |-> character, n |-> repetitions], adjacent runs   *)
(* of different characters, so that substring(0, 100) is computed and not  *)
(* assumed.  Time is Date.now() in milliseconds.                           *)
(***************************************************************************)
EXTENDS Integers, Sequences, FiniteSets, TLC

VARIABLES
    now,            \* Date.now(), in ms
    maxSize,        \* ExpressionCache.maxSize
    defaultTimeout, \* JsonataTransformer.defaultTimeout
    cache,          \* ExpressionCache.cache: the Map, in insertion order
    touchOrder,     \* history: cached keys, least recently touched first
    lastTransform,  \* history: the last transform() call and what it did
    lastCacheOp,    \* history: the last direct cache operation
    kv,             \* what the store holds under 'config:main', or how it fails
    envTtl,         \* env.CACHE_TTL_SECONDS
    cfgCache,       \* ConfigLoader.cache
    cleared,        \* history: clearCache() ran and no loadConfig() started since
    loads,          \* per caller of loadConfig(): where it stands
    lastLoad,       \* history: the loadConfig() that returned in the last step
    gw,             \* the request the gateway is serving, and its history
    previousCache   \* history: the expression cache the request before left

\* the transformer and its cache
xfVars == <<maxSize, defaultTimeout, cache, touchOrder, lastTransform, lastCacheOp>>

\* the configuration loader and the store
cfgVars == <<kv, envTtl, cfgCache, cleared, loads, lastLoad>>

\* the gateway's fetch handler
gwVars == <<gw, previousCache>>

vars == <<now, xfVars, cfgVars, gwVars>>

----------------------------------------------------------------------------
(* Bounds of the model *)

\* The clock advances at most this many ticks.
MaxTicks == 2

\* Largest configured cacheSize option that is tried.
MaxCacheSize == 2

----------------------------------------------------------------------------
(* Program constants *)

MsPerSecond == 1000
DefaultCacheTtlSeconds == 3600
DefaultCacheSize == 100
DefaultTimeoutMs == 50
KeyPrefixLen == 100

\* One tick of the clock: a second, so that an age can be below, equal to
\* and above a TTL of whole seconds.
TickMs == MsPerSecond

MaxNow == MaxTicks * TickMs

----------------------------------------------------------------------------
(* Strings *)

Min(a, b) == IF a < b THEN a ELSE b

\* the one-character string ch
Chr(ch) == <<[c |-> ch, n |-> 1]>>

\* n copies of the character "a"
Pad(n) == <<[c |-> "a", n |-> n]>>

\* the characters that occur in s
Chars(s) == {s[i].c : i \in 1..Len(s)}

RECURSIVE Substring0(_, _)
\* String.prototype.substring(0, n): the first n characters, all when fewer
Substring0(s, n) ==
    IF n <= 0 \/ s = <<>> THEN <<>>
    ELSE IF Head(s).n <= n THEN <<Head(s)>> \o Substring0(Tail(s), n - Head(s).n)
    ELSE <<[c |-> Head(s).c, n |-> n]>>

\* a || b on numbers: 0 (and an absent option, modelled as 0) is falsy
OrElse(a, b) == IF a # 0 THEN a ELSE b

----------------------------------------------------------------------------
(* The expression language (external): compile(source) -> callable or      *)
(* throws; callable.evaluate(data) -> value or throws.                     *)

IdentitySource == Chr("$")
ShortSource    == Chr("b")
BadSource      == Chr("{")
LongSourceA    == Pad(KeyPrefixLen) \o Chr("x")
LongSourceB    == Pad(KeyPrefixLen) \o Chr("y")
LongSourceBad  == Pad(KeyPrefixLen) \o Chr("{")

\* The parser rejects a source with an unclosed brace.
Malformed(text) == "{" \in Chars(text) /\ "}" \notin Chars(text)

NullExpr == [compiled |-> FALSE, text |-> <<>>]

NoError == [text |-> "", n |-> 0, detail |-> ""]

\* jsonata(expression): the compiled form of the full text, or a throw
Jsonata(text) ==
    IF Malformed(text)
    THEN [ok |-> FALSE, value |-> NullExpr,
          error |-> [text |-> "", n |-> 0, detail |-> "Syntax error"]]
    ELSE [ok |-> TRUE, value |-> [compiled |-> TRUE, text |-> text],
          error |-> NoError]

\* Payloads: a base document and the sources applied to it so far.
PayloadOne == [base |-> "p1", applied |-> <<>>]

PayloadTwo == [base |-> "p2", applied |-> <<>>]

Payloads == {PayloadOne, PayloadTwo}

\* How an evaluation behaves: whether it throws and how long it runs.
QuickEval == [throws |-> FALSE, dur |-> 0]

EvalBehaviours == [throws : BOOLEAN, dur : {0, TickMs}]

\* expression.evaluate(data): '$' returns the input; any other expression
\* returns the input rewritten by its source, or throws.
\* mutant: '$' is evaluated like any other expression
EvaluateRewriting(compiled, data, beh) ==
    IF beh.throws
    THEN [ok |-> FALSE, value |-> data,
          error |-> [text |-> "", n |-> 0, detail |-> "Evaluation error"]]
    ELSE [ok |-> TRUE,
          value |-> [base |-> data.base, applied |-> Append(data.applied, compiled.text)],
          error |-> NoError]

Evaluate(compiled, data, beh) ==
    IF compiled.text = IdentitySource
    THEN [ok |-> TRUE, value |-> data, error |-> NoError]
    ELSE IF beh.throws
    THEN [ok |-> FALSE, value |-> data,
          error |-> [text |-> "", n |-> 0, detail |-> "Evaluation error"]]
    ELSE [ok |-> TRUE,
          value |-> [base |-> data.base, applied |-> Append(data.applied, compiled.text)],
          error |-> NoError]

----------------------------------------------------------------------------
(* ExpressionCache *)

\* the empty string as a key: the one key `if (firstKey)` takes for no key
EmptyKey == [prefix |-> "", body |-> <<>>]

\* position of key in the Map's insertion order, 0 when absent
CacheIndex(c, key) ==
    IF \E i \in 1..Len(c) : c[i].key = key
    THEN CHOOSE i \in 1..Len(c) : c[i].key = key
    ELSE 0

CacheHas(c, key) == CacheIndex(c, key) # 0

CacheKeys(c) == [i \in 1..Len(c) |-> c[i].key]

\* Map.delete(key)
MapDelete(c, key) ==
    LET i == CacheIndex(c, key)
    IN IF i = 0 THEN c ELSE SubSeq(c, 1, i - 1) \o SubSeq(c, i + 1, Len(c))

\* Map.set(key, entry): a new key goes to the end, an old key keeps its place
MapSet(c, key, entry) ==
    LET i == CacheIndex(c, key)
    IN IF i = 0 THEN Append(c, entry) ELSE [c EXCEPT ![i] = entry]

\* mutant: an entry whose age equals its TTL counts as expired
ExpiredAtTtl(entry, t) == t - entry.cachedAt >= entry.ttl

\* now - entry.cachedAt > entry.ttl
Expired(entry, t) == t - entry.cachedAt > entry.ttl

\* ExpressionCache.get: the value returned
CacheGetValue(c, key, t) ==
    LET i == CacheIndex(c, key)
    IN IF i = 0 THEN NullExpr
       ELSE IF Expired(c[i], t) THEN NullExpr
       ELSE c[i].expression

\* ExpressionCache.get: the Map afterwards
\* mutant: a hit leaves the entry where it is
CacheAfterGetNoPromote(c, key, t) ==
    LET i == CacheIndex(c, key)
    IN IF i = 0 THEN c
       ELSE IF Expired(c[i], t) THEN MapDelete(c, key)
       ELSE c

\* mutant: a hit stamps the entry with the time of the hit
CacheAfterGetRefreshing(c, key, t) ==
    LET i == CacheIndex(c, key)
    IN IF i = 0 THEN c
       ELSE IF Expired(c[i], t) THEN MapDelete(c, key)
       ELSE MapSet(MapDelete(c, key), key, [c[i] EXCEPT !.cachedAt = t])

CacheAfterGet(c, key, t) ==
    LET i == CacheIndex(c, key)
    IN IF i = 0 THEN c
       ELSE IF Expired(c[i], t) THEN MapDelete(c, key)
       ELSE MapSet(MapDelete(c, key), key, c[i])

\* mutant: set never evicts
CacheAfterSetNoEvict(c, cap, key, expression, ttl, t) ==
    MapSet(c, key, [key |-> key, expression |-> expression, cachedAt |-> t, ttl |-> ttl])

\* ExpressionCache.set: the Map afterwards
CacheAfterSet(c, cap, key, expression, ttl, t) ==
    LET hasFirst == Len(c) > 0 /\ c[1].key # EmptyKey
        c1 == IF Len(c) >= cap /\ hasFirst THEN MapDelete(c, c[1].key) ELSE c
    IN MapSet(c1, key, [key |-> key, expression |-> expression, cachedAt |-> t, ttl |-> ttl])

\* ExpressionCache.clear
CacheAfterClear(c) == <<>>

\* ExpressionCache.size
CacheSize(c) == Len(c)

----------------------------------------------------------------------------
(* JsonataTransformer *)

\* The TransformationExpression objects handed to transform(); has = FALSE
\* is an object whose expression is missing; cacheTtl 0 is an absent cacheTtl.
Expr(text, ttl) == [has |-> TRUE, expression |-> text, cacheTtl |-> ttl]

NoExpression == [has |-> FALSE, expression |-> <<>>, cacheTtl |-> 0]

EngineExpressions ==
    {Expr(IdentitySource, 0), Expr(LongSourceA, 1), Expr(BadSource, 0), NoExpression}

CompileExpressions ==
    {Expr(IdentitySource, 0), Expr(ShortSource, 1), Expr(LongSourceA, 1),
     Expr(LongSourceB, 0), Expr(LongSourceBad, 1)}

\* The contexts handed to transform(); timeout 0 is an absent timeout.
RequestContext ==
    [fromVersion |-> "v1", toVersion |-> "v2", direction |-> "request", timeout |-> 0]

ResponseContext ==
    [fromVersion |-> "v2", toVersion |-> "v1", direction |-> "response", timeout |-> 100]

Contexts == {RequestContext, ResponseContext}

\* constructor options: 0 is an absent option
CacheSizeOptions == 0..MaxCacheSize
TimeoutOptions == {0, 100}

\* cacheKey = `expr:${expression.substring(0, 100)}`
CacheKey(text) == [prefix |-> "expr:", body |-> Substring0(text, KeyPrefixLen)]

\* compileExpression(expression, cacheTtl) on cache c at time t.
\* ok = FALSE is a throw; tried says whether jsonata() was called.
CompileExpression(c, cap, t, expr, cacheTtl) ==
    IF ~expr.has
    THEN \* expression.substring is read off undefined
         [ok |-> FALSE, value |-> NullExpr, cache |-> c, afterGet |-> c,
          hit |-> FALSE, tried |-> FALSE,
          error |-> [text |-> "", n |-> 0, detail |-> "TypeError"]]
    ELSE
    LET key == CacheKey(expr.expression)
        cached == CacheGetValue(c, key, t)
        c1 == CacheAfterGet(c, key, t)
        comp == Jsonata(expr.expression)
    IN IF cached.compiled
       THEN [ok |-> TRUE, value |-> cached, cache |-> c1, afterGet |-> c1,
             hit |-> TRUE, tried |-> FALSE, error |-> NoError]
       ELSE IF comp.ok
       THEN [ok |-> TRUE, value |-> comp.value,
             cache |-> CacheAfterSet(c1, cap, key, comp.value, cacheTtl, t),
             afterGet |-> c1, hit |-> FALSE, tried |-> TRUE, error |-> NoError]
       ELSE [ok |-> FALSE, value |-> NullExpr, cache |-> c1, afterGet |-> c1,
             hit |-> FALSE, tried |-> TRUE,
             error |-> [text |-> "Failed to compile JSONata expression: ", n |-> 0,
                        detail |-> comp.error.detail]]

TimeoutError(timeoutMs) ==
    [text |-> "Transformation timeout after ", n |-> timeoutMs, detail |-> "ms"]

\* executeWithTimeout: the executor arms the timer, runs evaluate() to its
\* end on the one thread and clears the timer before it returns, so the
\* timer's callback finds no turn of the event loop in which it is pending.
\* The promise takes the first settlement.
ExecuteWithTimeout(compiled, data, timeoutMs, beh) ==
    LET ev == Evaluate(compiled, data, beh)
        timerPendingAfterExecutor == FALSE
        settlements ==
            <<[ok |-> ev.ok, value |-> ev.value, error |-> ev.error]>>
            \o (IF timerPendingAfterExecutor
                THEN <<[ok |-> FALSE, value |-> data, error |-> TimeoutError(timeoutMs)]>>
                ELSE <<>>)
    IN Head(settlements)

\* mutant: the versions are echoed the wrong way round
MetricsSwapped(duration, context) ==
    [durationMs |-> duration, fromVersion |-> context.toVersion,
     toVersion |-> context.fromVersion, direction |-> context.direction]

\* the metrics of an outcome
Metrics(duration, context) ==
    [durationMs |-> duration, fromVersion |-> context.fromVersion,
     toVersion |-> context.toVersion, direction |-> context.direction]

\* the object returned from the try block
SuccessOutcome(result, duration, context) ==
    [success |-> TRUE, data |-> result, error |-> NoError,
     metrics |-> Metrics(duration, context)]

\* the object returned from the catch block
\* mutant: the catch block returns what the evaluation left behind
FailureOutcomePartial(data, partial, error, duration, context) ==
    [success |-> FALSE, data |-> partial, error |-> error,
     metrics |-> Metrics(duration, context)]

FailureOutcome(data, partial, error, duration, context) ==
    [success |-> FALSE, data |-> data, error |-> error,
     metrics |-> Metrics(duration, context)]

\* the steps of transform() that its try block encloses
\* mutant: the compile step is left outside the try block
TryEnclosesExecuteOnly == {"execute"}

TryEncloses == {"compile", "execute"}

\* transform(data, transformExpr, context) on cache c at time t
Transform(c, cap, dflt, t, data, expr, context, beh) ==
    LET startTime == t
        timeout == OrElse(context.timeout, dflt)
        comp == CompileExpression(c, cap, t, expr,
                    OrElse(expr.cacheTtl, DefaultCacheTtlSeconds) * MsPerSecond)
        exec == IF comp.ok
                THEN ExecuteWithTimeout(comp.value, data, timeout, beh)
                ELSE [ok |-> FALSE, value |-> data, error |-> comp.error]
        t2 == IF comp.ok THEN t + beh.dur ELSE t
        threwAt == IF ~comp.ok THEN "compile" ELSE IF ~exec.ok THEN "execute" ELSE "none"
        partial == [base |-> data.base, applied |-> Append(data.applied, Chr("?"))]
    IN [cache |-> comp.cache,
        now |-> t2,
        timeout |-> timeout,
        comp |-> comp,
        evaluated |-> comp.ok,
        threwAt |-> threwAt,
        completion |-> IF threwAt = "none" \/ threwAt \in TryEncloses
                       THEN "returned" ELSE "rejected",
        outcome |-> IF threwAt = "none"
                    THEN SuccessOutcome(exec.value, t2 - startTime, context)
                    ELSE FailureOutcome(data, partial, exec.error, t2 - startTime, context)]

\* the maxSize that getCacheStats reports
StatsMaxSize == 100

\* JsonataTransformer.getCacheStats on a transformer whose cache is c
GetCacheStats(c) == [size |-> CacheSize(c), maxSize |-> StatsMaxSize]

----------------------------------------------------------------------------
(* Configuration documents.  A string field that is missing and one that  *)
(* is empty are both falsy and both written "".                            *)

\* a leg of a version: transformation.request / transformation.response
PresentLeg(e) == [present |-> TRUE, leg |-> e]

MissingLeg == [present |-> FALSE, leg |-> NoExpression]

VersionTransformation(req, resp, target) ==
    [request |-> req, response |-> resp, targetVersion |-> target]

TransformationsOf(m) == [present |-> TRUE, map |-> m]

NoTransformations == [present |-> FALSE, map |-> <<>>]

NoRouting == <<>>

Config(ver, dflt, upstream, transformations, routing, generatedAt, generatedBy) ==
    [version |-> ver, defaultVersion |-> dflt, upstreamVersion |-> upstream,
     transformations |-> transformations, routing |-> routing,
     generatedAt |-> generatedAt, generatedBy |-> generatedBy]

\* the two object expressions of the default configuration's v1
DefaultV1Request == Chr("{") \o Chr("q") \o Chr("}")

DefaultV1Response == Chr("{") \o Chr("r") \o Chr("}")

DefaultV1CacheTtl == 3600

\* ConfigLoader.getDefaultConfig() at time t
GetDefaultConfig(t) ==
    Config("1.0.0", "v2", "v2",
           TransformationsOf(
               [v \in {"v1", "v2"} |->
                   IF v = "v1"
                   THEN VersionTransformation(
                            PresentLeg(Expr(DefaultV1Request, DefaultV1CacheTtl)),
                            PresentLeg(Expr(DefaultV1Response, DefaultV1CacheTtl)), "v2")
                   ELSE VersionTransformation(PresentLeg(Expr(IdentitySource, 0)),
                                              PresentLeg(Expr(IdentitySource, 0)), "v2")]),
           [p \in {"/users", "/posts", "/comments"} |-> <<"v1", "v2">>],
           t, "default-config")

PassThrough == VersionTransformation(PresentLeg(Expr(IdentitySource, 0)),
                                     PresentLeg(Expr(IdentitySource, 0)), "")

\* the documents the store is given: one that is well formed, and one for
\* each way of being ill formed
StoredConfig ==
    Config("1.0.0", "v2", "v2", TransformationsOf([v \in {"v1"} |-> PassThrough]),
           NoRouting, 0, "")

NoVersionDoc == [StoredConfig EXCEPT !.version = ""]

NoDefaultVersionDoc == [StoredConfig EXCEPT !.defaultVersion = ""]

NoTransformationsDoc == [StoredConfig EXCEPT !.transformations = NoTransformations]

EmptyTransformationsDoc == [StoredConfig EXCEPT !.transformations = TransformationsOf(<<>>)]

MissingLegDoc ==
    [StoredConfig EXCEPT !.transformations =
        TransformationsOf([v \in {"v1"} |-> [PassThrough EXCEPT !.response = MissingLeg]])]

MissingExpressionDoc ==
    [StoredConfig EXCEPT !.transformations =
        TransformationsOf([v \in {"v1"} |->
            [PassThrough EXCEPT !.request = PresentLeg(NoExpression)]])]

EmptyExpressionDoc ==
    [StoredConfig EXCEPT !.transformations =
        TransformationsOf([v \in {"v1"} |->
            [PassThrough EXCEPT !.response = PresentLeg(Expr(<<>>, 0))]])]

StoredDocs ==
    {StoredConfig, NoVersionDoc, NoDefaultVersionDoc, NoTransformationsDoc,
     EmptyTransformationsDoc, MissingLegDoc, MissingExpressionDoc, EmptyExpressionDoc}

\* What env.TRANSFORMATIONS.get('config:main', 'text') does: it rejects,
\* resolves to null, to text that is not JSON, or to the JSON of a document.
StoreJson(doc) == [kind |-> "json", doc |-> doc]

StoreFails(kind) == [kind |-> kind, doc |-> NoTransformationsDoc]

StoreValues ==
    {StoreFails("unavailable"), StoreFails("absent"), StoreFails("malformed")}
        \cup {StoreJson(d) : d \in StoredDocs}

NoResponse == StoreFails("none")

----------------------------------------------------------------------------
(* ConfigLoader *)

DefaultConfigTtlSeconds == 3600

\* env.CACHE_TTL_SECONDS: not set, or the text of a number of seconds
EnvTtlUnset == [set |-> FALSE, seconds |-> 0]

EnvTtlOptions == {EnvTtlUnset, [set |-> TRUE, seconds |-> 1]}

\* parseInt(env.CACHE_TTL_SECONDS || '3600', 10) * 1000
ConfigTtlMs(env) ==
    (IF env.set THEN env.seconds ELSE DefaultConfigTtlSeconds) * MsPerSecond

\* this.cache: null, or a configuration with the time and TTL of its
\* caching; stored is history, the document as it was when it was cached
NoConfigCache ==
    [has |-> FALSE, config |-> NoTransformationsDoc, cachedAt |-> 0, ttl |-> 0,
     stored |-> NoTransformationsDoc]

\* !expression: the property is missing or the empty string
NoText(e) == ~e.has \/ e.expression = <<>>

\* validateConfig: the message of the error it throws, "" when it returns
ValidateConfig(config) ==
    IF config.version = "" THEN "Configuration missing version field"
    ELSE IF config.defaultVersion = "" THEN "Configuration missing defaultVersion field"
    ELSE IF ~config.transformations.present
    THEN "Configuration missing transformations object"
    ELSE LET m == config.transformations.map
         IN IF \E v \in DOMAIN m : ~m[v].request.present \/ ~m[v].response.present
            THEN "Invalid transformation: missing request or response"
            ELSE IF \E v \in DOMAIN m : NoText(m[v].request.leg) \/ NoText(m[v].response.leg)
            THEN "Invalid transformation: missing expressions"
            ELSE ""

\* the steps of loadFromKV that throw inside its try block
LoadFromKVCatches == {"get", "parse", "validate"}

\* loadFromKV on the store's answer: the configuration, or null
\* mutant: validateConfig is not called
LoadFromKVUnvalidated(resp) ==
    LET threwAt == IF resp.kind = "unavailable" THEN "get"
                   ELSE IF resp.kind = "malformed" THEN "parse"
                   ELSE "none"
    IN [threw |-> threwAt \notin LoadFromKVCatches \cup {"none"},
        found |-> threwAt = "none" /\ resp.kind = "json",
        config |-> resp.doc]

LoadFromKV(resp) ==
    LET threwAt == IF resp.kind = "unavailable" THEN "get"
                   ELSE IF resp.kind = "absent" THEN "none"
                   ELSE IF resp.kind = "malformed" THEN "parse"
                   ELSE IF ValidateConfig(resp.doc) # "" THEN "validate"
                   ELSE "none"
    IN [threw |-> threwAt \notin LoadFromKVCatches \cup {"none"},
        found |-> threwAt = "none" /\ resp.kind = "json",
        config |-> resp.doc]

\* cacheConfig
CacheConfig(config, env, t) ==
    [has |-> TRUE, config |-> config, cachedAt |-> t, ttl |-> ConfigTtlMs(env),
     stored |-> config]

\* this.cache && isCacheValid(this.cache)
\* mutant: a document whose age equals the TTL is still valid
IsCacheValidAtTtl(c, t) == c.has /\ t - c.cachedAt <= c.ttl

IsCacheValid(c, t) == c.has /\ t - c.cachedAt < c.ttl

\* loadConfig once the store has answered: a throw of loadFromKV is caught,
\* and without a configuration from the store the default is built
\* mutant: the default configuration is returned without being cached
LoadConfigAfterReadDefaultUncached(resp, env, t) ==
    LET kvConfig == LoadFromKV(resp)
        fromStore == ~kvConfig.threw /\ kvConfig.found
        config == IF fromStore THEN kvConfig.config ELSE GetDefaultConfig(t)
    IN [config |-> config,
        fromStore |-> fromStore,
        cache |-> IF fromStore THEN CacheConfig(config, env, t) ELSE NoConfigCache,
        completion |-> "returned"]

LoadConfigAfterRead(resp, env, t) ==
    LET kvConfig == LoadFromKV(resp)
        config == IF ~kvConfig.threw /\ kvConfig.found
                  THEN kvConfig.config ELSE GetDefaultConfig(t)
    IN [config |-> config,
        fromStore |-> ~kvConfig.threw /\ kvConfig.found,
        cache |-> CacheConfig(config, env, t),
        completion |-> "returned"]

\* names every object has through Object.prototype
ObjectPrototypeKeys == {"constructor", "toString"}

\* version in config.transformations: own and inherited properties
IsSupportedIn(config, version) ==
    version \in DOMAIN config.transformations.map \cup ObjectPrototypeKeys

\* the elements of a set, one after the other
RECURSIVE SeqOfSet(_)
SeqOfSet(S) ==
    IF S = {} THEN <<>>
    ELSE LET x == CHOOSE y \in S : TRUE IN <<x>> \o SeqOfSet(S \ {x})

\* getSupportedVersions on the resolved configuration: the route's entry as
\* it is (an array, truthy also when empty), else Object.keys of the
\* transformations
\* mutant: the routing map is not looked at
GetSupportedVersionsKeysOnly(config, path) ==
    SeqOfSet(DOMAIN config.transformations.map)

GetSupportedVersions(config, path) ==
    IF path \in DOMAIN config.routing
    THEN config.routing[path]
    ELSE SeqOfSet(DOMAIN config.transformations.map)

\* getVersionTransformation on the resolved configuration, up to the test
\* of the request leg: an own key gives its transformation, no property
\* gives null, and an inherited property gives a value without legs, on
\* which reading request.expression throws.
GetVersionTransformation(config, version) ==
    IF version \in DOMAIN config.transformations.map
    THEN [threw |-> FALSE, found |-> TRUE, vt |-> config.transformations.map[version]]
    ELSE IF version \in ObjectPrototypeKeys
    THEN [threw |-> TRUE, found |-> FALSE, vt |-> PassThrough]
    ELSE [threw |-> FALSE, found |-> FALSE, vt |-> PassThrough]

\* the marker of an expression that is a reference to a key of the store
KvPrefix == Chr("k") \o Chr("v") \o Chr(":")

\* expression.startsWith('kv:')
StartsWithKv(text) == Substring0(text, Len(KvPrefix)) = KvPrefix

RECURSIVE DropChars(_, _)
\* the string without its first n characters
DropChars(s, n) ==
    IF n <= 0 \/ s = <<>> THEN s
    ELSE IF Head(s).n <= n THEN DropChars(Tail(s), n - Head(s).n)
    ELSE <<[c |-> Head(s).c, n |-> Head(s).n - n]>> \o Tail(s)

\* expression.replace('kv:', '') on an expression that starts with 'kv:'
KeyOfReference(text) == DropChars(text, Len(KvPrefix))

RequestReference == KvPrefix \o Chr("q")

ResponseReference == KvPrefix \o Chr("r")

\* What env.TRANSFORMATIONS.get(key, 'text') does for an expression key: it
\* rejects, resolves to null, to the empty text or to a source.
ExpressionAnswers ==
    {[kind |-> "unavailable", text |-> <<>>], [kind |-> "absent", text |-> <<>>],
     [kind |-> "text", text |-> <<>>], [kind |-> "text", text |-> ShortSource]}

\* loadExpression on the store's answer: the text, or null; a rejection of
\* the get is caught
\* mutant: the rejection of the get is not caught
LoadExpressionUncaught(answer) ==
    [threw |-> answer.kind = "unavailable", has |-> answer.kind = "text",
     text |-> answer.text]

LoadExpression(answer) ==
    [threw |-> FALSE, has |-> answer.kind = "text", text |-> answer.text]

\* transformation.request / transformation.response
LegOf(vt, name) == IF name = "request" THEN vt.request ELSE vt.response

\* the leg after `if (expression) { leg.expression = expression }`
LegAfterLoad(leg, e) ==
    IF e.has /\ e.text # <<>> THEN [leg EXCEPT !.leg.expression = e.text] ELSE leg

\* the transformation with its leg `name` replaced
WithLeg(vt, name, leg) ==
    IF name = "request" THEN [vt EXCEPT !.request = leg] ELSE [vt EXCEPT !.response = leg]

RECURSIVE FirstReference(_, _)
\* the legs from the first one on whose expression starts with 'kv:'
FirstReference(vt, legs) ==
    IF legs = <<>> THEN <<>>
    ELSE IF StartsWithKv(LegOf(vt, Head(legs)).leg.expression) THEN legs
    ELSE FirstReference(vt, Tail(legs))

\* a configuration whose v1 has its two legs in the store, with a routing
\* entry that is not the list of its keys and one that is empty
ReferenceConfig ==
    Config("1.0.0", "v2", "v2",
           TransformationsOf(
               [v \in {"v1", "v2"} |->
                   IF v = "v1"
                   THEN VersionTransformation(PresentLeg(Expr(RequestReference, 0)),
                                              PresentLeg(Expr(ResponseReference, 0)), "v2")
                   ELSE PassThrough]),
           [p \in {"/users", "/posts"} |-> IF p = "/users" THEN <<"v2", "v1">> ELSE <<>>],
           0, "")

\* what a caller writes into an object it was handed
CallerMark == "written-by-caller"

\* the callers of one loader and what they call
Callers == {"c1", "c2"}

Versions == {"v1", "v2", "v3", "constructor"}

LoaderCalls ==
    {[op |-> "loadConfig", version |-> ""], [op |-> "reload", version |-> ""]}
        \cup {[op |-> "isSupportedVersion", version |-> v] : v \in Versions}

Idle == [pc |-> "idle", call |-> [op |-> "", version |-> ""], startedAt |-> 0,
         seen |-> NoConfigCache, afterClear |-> FALSE, resp |-> NoResponse]

NoLoad == [op |-> "none"]

\* a loader as its constructor leaves it
LoaderNew ==
    /\ cfgCache = NoConfigCache
    /\ cleared = FALSE
    /\ loads = [p \in Callers |-> Idle]
    /\ lastLoad = NoLoad

\* the gateway between requests
NoRequest == [pc |-> "idle"]

----------------------------------------------------------------------------
(* History kept for the properties *)

SeqRemove(s, x) == SelectSeq(s, LAMBDA y : y # x)

Touch(s, x) == Append(SeqRemove(s, x), x)

\* keys of c that are not keys of d, in c's order
KeysLost(c, d) == SelectSeq(CacheKeys(c), LAMBDA k : ~CacheHas(d, k))

NoTransform == [op |-> "none"]

NoCacheOp == [op |-> "none"]

\* touch order after a transform: a hit and an insert touch the key, a
\* removed key leaves the order
TouchAfter(order, r, key, has) ==
    LET o1 == IF ~has THEN order
              ELSE IF r.comp.hit THEN Touch(order, key)
              ELSE SelectSeq(order, LAMBDA k : CacheHas(r.comp.afterGet, k))
        o2 == IF has /\ r.comp.tried /\ r.comp.ok THEN Touch(o1, key) ELSE o1
    IN SelectSeq(o2, LAMBDA k : CacheHas(r.cache, k))

----------------------------------------------------------------------------
(* One transformer, driven by transform(), clearCache() and the passing    *)
(* of time                                                                 *)

Init ==
    /\ now = 0
    /\ \E o \in CacheSizeOptions : maxSize = OrElse(o, DefaultCacheSize)
    /\ \E o \in TimeoutOptions : defaultTimeout = OrElse(o, DefaultTimeoutMs)
    /\ cache = <<>>
    /\ touchOrder = <<>>
    /\ lastTransform = NoTransform
    /\ lastCacheOp = NoCacheOp
    /\ kv = StoreFails("absent")
    /\ envTtl = EnvTtlUnset
    /\ LoaderNew
    /\ gw = NoRequest
    /\ previousCache = <<>>

\* a call of transform() with its arguments drawn from the given sets
TransformCall(exprs, payloads, contexts, behaviours) ==
    \E data \in payloads, expr \in exprs, context \in contexts, beh \in behaviours :
      \E r \in {Transform(cache, maxSize, defaultTimeout, now, data, expr, context, beh)},
         key \in {CacheKey(expr.expression)} :
        LET orderAfterGet ==
                IF ~expr.has THEN touchOrder
                ELSE IF r.comp.hit THEN Touch(touchOrder, key)
                ELSE SelectSeq(touchOrder, LAMBDA k : CacheHas(r.comp.afterGet, k))
        IN /\ r.now <= MaxNow
           /\ cache' = r.cache
           /\ now' = r.now
           /\ touchOrder' = TouchAfter(touchOrder, r, key, expr.has)
           /\ lastTransform' =
                [op |-> "transform", data |-> data, expr |-> expr, context |-> context,
                 evalDur |-> IF r.evaluated THEN beh.dur ELSE 0,
                 timeout |-> r.timeout, outcome |-> r.outcome,
                 completion |-> r.completion, threwAt |-> r.threwAt,
                 evaluated |-> r.evaluated, used |-> r.comp.value,
                 hit |-> r.comp.hit, tried |-> r.comp.tried,
                 didSet |-> r.comp.tried /\ r.comp.ok,
                 sizeBefore |-> CacheSize(cache),
                 sizeAfterGet |-> CacheSize(r.comp.afterGet),
                 sizeAfter |-> CacheSize(r.cache),
                 hadKey |-> expr.has /\ CacheHas(cache, key),
                 hasKeyAfter |-> expr.has /\ CacheHas(r.cache, key),
                 lruBeforeSet |-> IF orderAfterGet = <<>> THEN EmptyKey ELSE Head(orderAfterGet),
                 evicted |-> KeysLost(r.comp.afterGet, r.cache),
                 evictedAt |-> IF r.comp.tried /\ r.comp.ok
                                  /\ KeysLost(r.comp.afterGet, r.cache) # <<>>
                               THEN r.comp.afterGet[1].cachedAt ELSE 0]
           /\ UNCHANGED <<maxSize, defaultTimeout, lastCacheOp, cfgVars, gwVars>>

\* JsonataTransformer.clearCache
ClearCache ==
    /\ cache' = CacheAfterClear(cache)
    /\ touchOrder' = <<>>
    /\ lastTransform' = NoTransform
    /\ UNCHANGED <<now, maxSize, defaultTimeout, lastCacheOp, cfgVars, gwVars>>

Tick ==
    /\ now + TickMs <= MaxNow
    /\ now' = now + TickMs
    /\ lastLoad' = NoLoad
    /\ UNCHANGED <<xfVars, gwVars, kv, envTtl, cfgCache, cleared, loads>>

\* transform() with every kind of expression, payload, context and evaluation
DoTransform == TransformCall(EngineExpressions, Payloads, Contexts, EvalBehaviours)

Next == DoTransform \/ ClearCache \/ Tick

Spec == Init /\ [][Next]_vars

\* transform() with the sources that meet in the cache, on one payload
DoCompile == TransformCall(CompileExpressions, {PayloadOne}, {RequestContext}, {QuickEval})

NextCompile == DoCompile \/ ClearCache \/ Tick

SpecCompile == Init /\ [][NextCompile]_vars

----------------------------------------------------------------------------
(* The expression cache on its own, driven by get, set, clear and the      *)
(* passing of time, with the keys, compiled forms and TTLs the transformer *)
(* hands it                                                                *)

CacheableExpressions ==
    {Expr(IdentitySource, 0), Expr(ShortSource, 1), Expr(LongSourceA, 1), Expr(LongSourceB, 0)}

TtlMs(expr) == OrElse(expr.cacheTtl, DefaultCacheTtlSeconds) * MsPerSecond

\* expressionCache.get(key)
CacheGet ==
    \E expr \in CacheableExpressions :
      \E key \in {CacheKey(expr.expression)} :
        LET i == CacheIndex(cache, key)
        IN /\ cache' = CacheAfterGet(cache, key, now)
           /\ lastCacheOp' =
                [op |-> "get", key |-> key, had |-> i # 0,
                 age |-> IF i # 0 THEN now - cache[i].cachedAt ELSE 0,
                 ttl |-> IF i # 0 THEN cache[i].ttl ELSE 0,
                 held |-> IF i # 0 THEN cache[i].expression ELSE NullExpr,
                 result |-> CacheGetValue(cache, key, now),
                 sizeBefore |-> CacheSize(cache),
                 sizeAfter |-> CacheSize(CacheAfterGet(cache, key, now)),
                 hasAfter |-> CacheHas(CacheAfterGet(cache, key, now), key)]
           /\ UNCHANGED <<now, maxSize, defaultTimeout, touchOrder, lastTransform, cfgVars, gwVars>>

\* expressionCache.set(key, compiled, ttl)
CacheSet ==
    \E expr \in CacheableExpressions :
      \E key \in {CacheKey(expr.expression)} :
        /\ cache' = CacheAfterSet(cache, maxSize, key, Jsonata(expr.expression).value,
                                  TtlMs(expr), now)
        /\ lastCacheOp' =
             [op |-> "set", key |-> key, had |-> CacheHas(cache, key),
              age |-> 0, ttl |-> TtlMs(expr), held |-> NullExpr, result |-> NullExpr,
              sizeBefore |-> CacheSize(cache),
              sizeAfter |-> CacheSize(cache'),
              hasAfter |-> CacheHas(cache', key)]
        /\ UNCHANGED <<now, maxSize, defaultTimeout, touchOrder, lastTransform, cfgVars, gwVars>>

\* expressionCache.clear()
CacheClear ==
    /\ cache' = CacheAfterClear(cache)
    /\ lastCacheOp' =
         [op |-> "clear", key |-> EmptyKey, had |-> FALSE, age |-> 0, ttl |-> 0,
          held |-> NullExpr, result |-> NullExpr,
          sizeBefore |-> CacheSize(cache), sizeAfter |-> CacheSize(cache'),
          hasAfter |-> FALSE]
    /\ UNCHANGED <<now, maxSize, defaultTimeout, touchOrder, lastTransform, cfgVars, gwVars>>

NextCache == CacheGet \/ CacheSet \/ CacheClear \/ Tick

SpecCache == Init /\ [][NextCache]_vars

----------------------------------------------------------------------------
(* One configuration loader over a store whose content changes, driven by  *)
(* loadConfig(), isSupportedVersion(), reload(), clearCache() and the      *)
(* passing of time.  A call that reads the store takes three steps: up to  *)
(* the await of the store's get, the store serving the get, and from the   *)
(* store's answer to the return                                            *)

TransformerAtRest ==
    /\ maxSize = DefaultCacheSize
    /\ defaultTimeout = DefaultTimeoutMs
    /\ cache = <<>>
    /\ touchOrder = <<>>
    /\ lastTransform = NoTransform
    /\ lastCacheOp = NoCacheOp

InitLoader ==
    /\ now = 0
    /\ TransformerAtRest
    /\ kv \in StoreValues
    /\ envTtl \in EnvTtlOptions
    /\ LoaderNew
    /\ gw = NoRequest
    /\ previousCache = <<>>

\* what a call that got `config` from loadConfig gives its caller; seen is
\* the loader's cache when the call started, afterClear whether it is the
\* first loadConfig to start since a clearCache; overtaken and replaced are
\* history: a read issued and served later was cached before this one, and
\* the cache this one's cacheConfig wrote over
LoadReturn(p, call, startedAt, seen, afterClear, read, resp, config, fromStore) ==
    [op |-> "load", caller |-> p, call |-> call, startedAt |-> startedAt, at |-> now,
     cacheAtStart |-> seen, afterClear |-> afterClear,
     read |-> read, response |-> resp, config |-> config, fromStore |-> fromStore,
     completion |-> IF call.op = "isSupportedVersion" /\ ~config.transformations.present
                    THEN "raised"
                    ELSE IF call.op = "getVersionTransformation"
                            /\ GetVersionTransformation(config, call.version).threw
                    THEN "raised" ELSE "returned",
     answer |-> call.op = "isSupportedVersion" /\ IsSupportedIn(config, call.version),
     document |-> IF read THEN config ELSE seen.stored,
     versions |-> IF call.op = "getSupportedVersions"
                  THEN GetSupportedVersions(config, call.path) ELSE <<>>,
     transformation |-> IF call.op = "getVersionTransformation"
                        THEN GetVersionTransformation(config, call.version)
                        ELSE [threw |-> FALSE, found |-> FALSE, vt |-> PassThrough],
     fetches |-> <<>>, detached |-> FALSE,
     overtaken |-> FALSE, replaced |-> NoConfigCache]

\* the reads in flight when p's loadConfig caches its document: p leaves
\* their records, and a read that was issued before p's and served before
\* p's, and is still awaited, has been overtaken
Overtake(ls, p) ==
    [q \in DOMAIN ls |->
        IF q # p /\ ls[q].pc \in {"reading", "answered"}
        THEN [ls[q] EXCEPT !.behind = @ \ {p}, !.after = @ \ {p},
                           !.overtaken = @ \/ (q \in ls[p].behind /\ q \in ls[p].after)]
        ELSE ls[q]]

\* the calls awaiting an expression hold an object that the cache, cleared or
\* given another object, holds no longer
Detach(ls) ==
    [q \in DOMAIN ls |->
        IF ls[q].pc = "resolving" THEN [ls[q] EXCEPT !.detached = TRUE] ELSE ls[q]]

\* a call from the return of its loadConfig on: getVersionTransformation
\* with a leg that starts with 'kv:' goes on to the await of loadExpression,
\* every other call returns
AfterLoadConfig(p, ret, ls) ==
    \E legs \in {IF ret.call.op = "getVersionTransformation" /\ ret.transformation.found
                 THEN FirstReference(ret.transformation.vt, <<"request", "response">>)
                 ELSE <<>>} :
        IF legs # <<>>
        THEN /\ loads' = [ls EXCEPT ![p] =
                            [pc |-> "resolving", call |-> ret.call,
                             startedAt |-> ret.startedAt, seen |-> ret.cacheAtStart,
                             afterClear |-> ret.afterClear, resp |-> ret.response,
                             ret |-> ret, legs |-> legs, detached |-> FALSE]]
             /\ lastLoad' = NoLoad
        ELSE /\ loads' = [ls EXCEPT ![p] = Idle]
             /\ lastLoad' = ret

\* loadConfig up to its first await: reload() clears the cache first; a
\* valid cached configuration is returned at once, otherwise the get of
\* 'config:main' is issued
LoadConfigStart(p, call) ==
    /\ loads[p].pc = "idle"
    /\ \E c0 \in {IF call.op = "reload" THEN NoConfigCache ELSE cfgCache},
          first \in {cleared \/ call.op = "reload"} :
          /\ cfgCache' = c0
          /\ cleared' = FALSE
          /\ IF IsCacheValid(c0, now)
             THEN AfterLoadConfig(p, LoadReturn(p, call, now, cfgCache, first, FALSE,
                                                NoResponse, c0.config, FALSE), loads)
             ELSE /\ loads' = [(IF call.op = "reload" THEN Detach(loads) ELSE loads)
                                  EXCEPT ![p] =
                                  [pc |-> "reading", call |-> call, startedAt |-> now,
                                   seen |-> cfgCache, afterClear |-> first,
                                   resp |-> NoResponse,
                                   behind |-> {q \in Callers \ {p} :
                                                 loads[q].pc \in {"reading", "answered"}},
                                   after |-> {}, overtaken |-> FALSE]]
                  /\ lastLoad' = NoLoad
    /\ UNCHANGED <<now, xfVars, gwVars, kv, envTtl>>

\* the store serves the get with what it holds at that moment
StoreAnswer(p) ==
    /\ loads[p].pc = "reading"
    /\ loads' = [loads EXCEPT ![p].pc = "answered", ![p].resp = kv,
                              ![p].after = {q \in Callers \ {p} : loads[q].pc = "answered"}]
    /\ lastLoad' = NoLoad
    /\ UNCHANGED <<now, xfVars, gwVars, kv, envTtl, cfgCache, cleared>>

\* the answer reaches loadConfig, which runs to its return
LoadConfigFinish(p) ==
    /\ loads[p].pc = "answered"
    /\ \E r \in {LoadConfigAfterRead(loads[p].resp, envTtl, now)} :
          /\ cfgCache' = r.cache
          /\ AfterLoadConfig(p, [LoadReturn(p, loads[p].call, loads[p].startedAt,
                                            loads[p].seen, loads[p].afterClear, TRUE,
                                            loads[p].resp, r.config, r.fromStore)
                                    EXCEPT !.overtaken = loads[p].overtaken,
                                           !.replaced = cfgCache],
                             Detach(Overtake(loads, p)))
    /\ UNCHANGED <<now, xfVars, gwVars, kv, envTtl, cleared>>

\* the store serves the get of loadExpression and getVersionTransformation
\* runs on, writing the text it got into the transformation, to the await
\* for its other leg or to its return
LoadExpressionFinish(p) ==
    /\ loads[p].pc = "resolving"
    /\ \E answer \in ExpressionAnswers :
         \E e \in {LoadExpression(answer)} :
           LET l == loads[p]
               name == Head(l.legs)
               vt == l.ret.transformation.vt
               leg == LegAfterLoad(LegOf(vt, name), e)
               vt2 == WithLeg(vt, name, leg)
               fetch == [leg |-> name,
                         key |-> KeyOfReference(LegOf(vt, name).leg.expression),
                         answer |-> answer,
                         before |-> LegOf(vt, name).leg.expression,
                         after |-> leg.leg.expression]
               ret == [l.ret EXCEPT !.transformation.vt = vt2,
                                    !.fetches = Append(@, fetch),
                                    !.at = now, !.detached = l.detached]
               rest == FirstReference(vt2, Tail(l.legs))
           IN IF e.threw
              THEN /\ loads' = [loads EXCEPT ![p] = Idle]
                   /\ lastLoad' = [ret EXCEPT !.completion = "raised"]
                   /\ UNCHANGED cfgCache
              ELSE /\ cfgCache' =
                        IF l.detached THEN cfgCache
                        ELSE [cfgCache EXCEPT
                                !.config.transformations.map[l.call.version] =
                                    WithLeg(@, name, LegAfterLoad(LegOf(@, name), e))]
                   /\ IF rest # <<>>
                      THEN /\ loads' = [loads EXCEPT ![p].ret = ret, ![p].legs = rest]
                           /\ lastLoad' = NoLoad
                      ELSE /\ loads' = [loads EXCEPT ![p] = Idle]
                           /\ lastLoad' = ret
    /\ UNCHANGED <<now, xfVars, gwVars, kv, envTtl, cleared>>

\* ConfigLoader.clearCache
ClearConfigCache ==
    /\ cfgCache.has \/ ~cleared
    /\ cfgCache' = NoConfigCache
    /\ cleared' = TRUE
    /\ lastLoad' = NoLoad
    /\ loads' = Detach(loads)
    /\ UNCHANGED <<now, xfVars, gwVars, kv, envTtl>>

\* somebody writes, deletes or breaks 'config:main'
StoreChangeIn(values) ==
    /\ \E v \in values \ {kv} : kv' = v
    /\ lastLoad' = NoLoad
    /\ UNCHANGED <<now, xfVars, gwVars, envTtl, cfgCache, cleared, loads>>

StoreChange == StoreChangeIn(StoreValues)

LoadStart == \E call \in LoaderCalls : LoadConfigStart("c1", call)

LoadAnswer == StoreAnswer("c1")

LoadFinish == LoadConfigFinish("c1")

NextLoader ==
    LoadStart \/ LoadAnswer \/ LoadFinish \/ ClearConfigCache \/ StoreChange \/ Tick

SpecLoader == InitLoader /\ [][NextLoader]_vars

----------------------------------------------------------------------------
(* One loader whose caller asks for the supported versions of a route and  *)
(* for the transformation of a version, over a store that holds nothing or *)
(* a configuration with references, and writes into the objects it is      *)
(* handed                                                                  *)

RoutePaths == {"/users", "/posts", "/test"}

ResolverCalls ==
    {[op |-> o, version |-> "", path |-> ""] : o \in {"loadConfig", "reload"}}
        \cup {[op |-> "getSupportedVersions", version |-> "", path |-> r] : r \in RoutePaths}
        \cup {[op |-> "getVersionTransformation", version |-> v, path |-> ""] : v \in Versions}

ResolverStoreValues == {StoreFails("absent"), StoreJson(ReferenceConfig)}

InitResolver ==
    /\ now = 0
    /\ TransformerAtRest
    /\ kv \in ResolverStoreValues
    /\ envTtl \in EnvTtlOptions
    /\ LoaderNew
    /\ gw = NoRequest
    /\ previousCache = <<>>

\* the caller of loadConfig() sets a property of the object it was just
\* handed, which is the object the loader's cache holds
CallerWritesConfig ==
    /\ lastLoad.op = "load"
    /\ lastLoad.call.op \in {"loadConfig", "reload"}
    /\ cfgCache.has
    /\ cfgCache.config.defaultVersion # CallerMark
    /\ cfgCache' = [cfgCache EXCEPT !.config.defaultVersion = CallerMark]
    /\ lastLoad' = NoLoad
    /\ UNCHANGED <<now, xfVars, gwVars, kv, envTtl, cleared, loads>>

\* the caller of getVersionTransformation() sets a property of the
\* transformation it was just handed, which is part of the cached object
\* unless the cache was cleared while the call awaited an expression
CallerWritesTransformation ==
    /\ lastLoad.op = "load"
    /\ lastLoad.call.op = "getVersionTransformation"
    /\ lastLoad.completion = "returned"
    /\ lastLoad.transformation.found
    /\ ~lastLoad.detached
    /\ cfgCache.has
    /\ cfgCache.config.transformations.map[lastLoad.call.version].targetVersion # CallerMark
    /\ cfgCache' = [cfgCache EXCEPT
                      !.config.transformations.map[lastLoad.call.version].targetVersion
                          = CallerMark]
    /\ lastLoad' = NoLoad
    /\ UNCHANGED <<now, xfVars, gwVars, kv, envTtl, cleared, loads>>

ResolverStart == \E call \in ResolverCalls : LoadConfigStart("c1", call)

ResolverExpression == LoadExpressionFinish("c1")

ResolverStoreChange == StoreChangeIn(ResolverStoreValues)

NextResolver ==
    \/ ResolverStart
    \/ LoadAnswer
    \/ LoadFinish
    \/ ResolverExpression
    \/ ClearConfigCache
    \/ CallerWritesConfig
    \/ CallerWritesTransformation
    \/ ResolverStoreChange
    \/ Tick

SpecResolver == InitResolver /\ [][NextResolver]_vars

----------------------------------------------------------------------------
(* The same loader called by two callers whose loadConfig() and reload()   *)
(* overlap, over a store that holds the stored configuration or nothing    *)

OverlapCalls == {[op |-> "loadConfig", version |-> ""], [op |-> "reload", version |-> ""]}

OverlapStoreValues == {StoreFails("absent"), StoreJson(StoredConfig)}

InitOverlap ==
    /\ now = 0
    /\ TransformerAtRest
    /\ kv \in OverlapStoreValues
    /\ envTtl \in EnvTtlOptions
    /\ LoaderNew
    /\ gw = NoRequest
    /\ previousCache = <<>>

OverlapStart == \E p \in Callers, call \in OverlapCalls : LoadConfigStart(p, call)

OverlapAnswer == \E p \in Callers : StoreAnswer(p)

OverlapFinish == \E p \in Callers : LoadConfigFinish(p)

OverlapStoreChange == StoreChangeIn(OverlapStoreValues)

NextOverlap ==
    \/ OverlapStart
    \/ OverlapAnswer
    \/ OverlapFinish
    \/ ClearConfigCache
    \/ OverlapStoreChange
    \/ Tick

SpecOverlap == InitOverlap /\ [][NextOverlap]_vars

----------------------------------------------------------------------------
(* The gateway: requests, upstream answers and responses *)

\* the versions the requests name; "constructor" is a property every
\* object inherits
RequestVersions == {"v1", "v2", "v3", "v4", "v5", "constructor"}

Digits == {"0", "1", "2", "3", "4", "5", "6", "7", "8", "9"}

\* url.pathname, as text and character by character
Path(text, chars) == [text |-> text, chars |-> chars]

UsersPath == Path("/users", <<"/", "u", "s", "e", "r", "s">>)

V3UsersPath == Path("/v3/users", <<"/", "v", "3", "/", "u", "s", "e", "r", "s">>)

V3Path == Path("/v3", <<"/", "v", "3">>)

VxUsersPath == Path("/vx/users", <<"/", "v", "x", "/", "u", "s", "e", "r", "s">>)

ApiV3Path == Path("/api/v3/", <<"/", "a", "p", "i", "/", "v", "3", "/">>)

RequestPaths == {UsersPath, V3UsersPath, V3Path, VxUsersPath, ApiV3Path}

\* the spelling of the versions made of v and digits
Spelling == [v \in {"v1", "v2", "v3", "v4", "v5"} |->
                <<"v", CASE v = "v1" -> "1" [] v = "v2" -> "2" [] v = "v3" -> "3"
                         [] v = "v4" -> "4" [] v = "v5" -> "5">>]

\* the number of digits of chars from position i on
RECURSIVE DigitRun(_, _)
DigitRun(chars, i) ==
    IF i <= Len(chars) /\ chars[i] \in Digits THEN 1 + DigitRun(chars, i + 1) ELSE 0

\* url.pathname.match(/^\/(v\d+)\//): the captured group, "" without a match
PathMatch(path) ==
    LET chars == path.chars
        k == DigitRun(chars, 3)
    IN IF /\ Len(chars) >= 4
          /\ chars[1] = "/"
          /\ chars[2] = "v"
          /\ k >= 1
          /\ Len(chars) >= 3 + k
          /\ chars[3 + k] = "/"
       THEN LET group == SubSeq(chars, 2, 2 + k)
            IN CHOOSE v \in DOMAIN Spelling : Spelling[v] = group
       ELSE ""

\* JSON values: null and 0 are the falsy ones
NullValue == [base |-> "null", applied |-> <<>>]

ZeroValue == [base |-> "0", applied |-> <<>>]

Truthy(value) == value.base \notin {"null", "0"}

\* a request: headers.get and searchParams.get give null for a missing
\* name, written "" as null and "" are both falsy; content is what
\* request.json() finds: a JSON value, or text that does not parse
Request(method, apiVersion, xApiVersion, apiVersionParam, versionParam, path, jsonContentType, parses, content) ==
    [method |-> method, apiVersionHeader |-> apiVersion, xApiVersionHeader |-> xApiVersion,
     apiVersionParam |-> apiVersionParam, versionParam |-> versionParam, path |-> path,
     jsonContentType |-> jsonContentType, parses |-> parses, content |-> content]

\* a || b on strings
OrElseText(a, b) == IF a # "" THEN a ELSE b

\* parseRequestContext: the detected version and the parsed body
\* mutant: the query parameters are looked at before the headers
DetectVersionQueryFirst(request) ==
    LET versionHeader == OrElseText(request.apiVersionHeader, request.xApiVersionHeader)
        versionParam == OrElseText(request.apiVersionParam, request.versionParam)
    IN OrElseText(versionParam, OrElseText(versionHeader, PathMatch(request.path)))

DetectVersion(request) ==
    LET versionHeader == OrElseText(request.apiVersionHeader, request.xApiVersionHeader)
        versionParam == OrElseText(request.apiVersionParam, request.versionParam)
    IN OrElseText(versionHeader, OrElseText(versionParam, PathMatch(request.path)))

ParseBody(request) ==
    IF request.method \notin {"GET", "HEAD"} /\ request.jsonContentType /\ request.parses
    THEN request.content
    ELSE NullValue

ParseRequestContext(request) ==
    [apiVersion |-> DetectVersion(request), path |-> request.path.text,
     method |-> request.method, body |-> ParseBody(request)]

\* loadConfig() on the request's own loader, from call to return: the cached
\* configuration while it is valid, else what the store's answer gives
ResolveConfig(c, store, env, t) ==
    IF IsCacheValid(c, t)
    THEN [config |-> c.config, cache |-> c, read |-> FALSE]
    ELSE LET r == LoadConfigAfterRead(store, env, t)
         IN [config |-> r.config, cache |-> r.cache, read |-> TRUE]

\* what fetch(upstreamRequest) gives: a rejection, or a response with a
\* status, a content type that is JSON or not, and a body that parses to a
\* JSON value or does not
UpstreamRejects ==
    [kind |-> "rejects", status |-> 0, jsonContentType |-> FALSE, parses |-> FALSE,
     content |-> NullValue]

UpstreamResponse(status, jsonContentType, parses, content) ==
    [kind |-> "response", status |-> status, jsonContentType |-> jsonContentType,
     parses |-> parses, content |-> content]

NoAnswer ==
    [kind |-> "none", status |-> 0, jsonContentType |-> FALSE, parses |-> FALSE,
     content |-> NullValue]

StatusOk == 200

StatusBadRequest == 400

StatusNotFound == 404

StatusServerError == 500

\* an upstream body that is no JSON
TextValue == [base |-> "text", applied |-> <<>>]

UpstreamAnswers ==
    {UpstreamRejects,
     UpstreamResponse(StatusOk, TRUE, TRUE, PayloadTwo),
     UpstreamResponse(StatusNotFound, TRUE, TRUE, PayloadTwo),
     UpstreamResponse(StatusOk, TRUE, TRUE, ZeroValue),
     UpstreamResponse(StatusOk, TRUE, FALSE, NullValue),
     UpstreamResponse(StatusNotFound, FALSE, FALSE, TextValue)}

\* Object.fromEntries(upstreamResponse.headers): the upstream's headers,
\* names in lower case
UpstreamHeaders(answer) ==
    ("content-type" :> (IF answer.jsonContentType THEN "application/json" ELSE "text/plain"))
        @@ ("cache-control" :> "no-store")

\* crypto.randomUUID()
RequestId == "request-id"

\* response bodies
ErrorBody(error, message, supportedVersions, requestId) ==
    [kind |-> "error", error |-> error, message |-> message,
     supportedVersions |-> supportedVersions, requestId |-> requestId,
     value |-> NullValue]

JsonBody(value) ==
    [kind |-> "json", error |-> "", message |-> "", supportedVersions |-> <<>>,
     requestId |-> "", value |-> value]

StreamBody(answer) ==
    [kind |-> "stream", error |-> "", message |-> "", supportedVersions |-> <<>>,
     requestId |-> "", value |-> answer.content]

\* createErrorResponse(error, status, apiVersion); apiVersion "" is no argument
CreateErrorResponse(body, status, apiVersion) ==
    [status |-> status, body |-> body,
     headers |-> ("Content-Type" :> "application/json")
                 @@ (IF apiVersion # "" THEN "X-API-Version" :> apiVersion ELSE <<>>)
                 @@ ("X-Powered-By" :> "JSONata-API-Gateway")]

\* the response built from the JSON of the upstream
JsonResponse(value, status, apiVersion, upstreamVersion) ==
    [status |-> status, body |-> JsonBody(value),
     headers |-> ("Content-Type" :> "application/json")
                 @@ ("X-API-Version" :> apiVersion)
                 @@ ("X-Upstream-Version" :> upstreamVersion)
                 @@ ("X-Request-ID" :> RequestId)
                 @@ ("X-Powered-By" :> "JSONata-API-Gateway")
                 @@ ("Access-Control-Allow-Origin" :> "*")]

\* the response that passes a non-JSON answer through
\* mutant: a non-JSON answer is answered like a JSON one
PassThroughResponseAsJson(answer, apiVersion) ==
    JsonResponse(answer.content, answer.status, apiVersion, "")

PassThroughResponse(answer, apiVersion) ==
    [status |-> answer.status, body |-> StreamBody(answer),
     headers |-> ("X-API-Version" :> apiVersion) @@ ("X-Request-ID" :> RequestId)
                 @@ UpstreamHeaders(answer)]

\* the response of the catch block of fetch()
UnhandledErrorResponse(message) ==
    CreateErrorResponse(ErrorBody("Internal server error", message, <<>>, RequestId),
                        StatusServerError, "")

NoGatewayResponse == [status |-> 0, body |-> JsonBody(NullValue), headers |-> <<>>]

\* no upstream request yet
NoForward == [issued |-> FALSE, hasBody |-> FALSE, body |-> NullValue, headers |-> <<>>]

\* the configurations the store holds for the gateway: none (the default
\* configuration is used), one with a route of its own, and two whose v1
\* has a leg that does not compile
BadRequestDoc ==
    [StoredConfig EXCEPT !.transformations =
        TransformationsOf([v \in {"v1"} |->
            VersionTransformation(PresentLeg(Expr(BadSource, 0)),
                                  PresentLeg(Expr(ShortSource, 0)), "v2")])]

BadResponseDoc ==
    [StoredConfig EXCEPT !.transformations =
        TransformationsOf([v \in {"v1", "v2"} |->
            IF v = "v1"
            THEN VersionTransformation(PresentLeg(Expr(ShortSource, 0)),
                                       PresentLeg(Expr(BadSource, 0)), "v2")
            ELSE VersionTransformation(PresentLeg(Expr(ShortSource, 0)),
                                       PresentLeg(Expr(ShortSource, 0)), "v2")])]

\* a configuration with v1 and v2 whose route /users lists v2 only
RoutedDoc ==
    [StoredConfig EXCEPT
        !.transformations = TransformationsOf([v \in {"v1", "v2"} |-> PassThrough]),
        !.routing = [p \in {"/users"} |-> <<"v2">>]]

GatewayStoreValues ==
    {StoreFails("absent"), StoreJson(RoutedDoc), StoreJson(BadRequestDoc),
     StoreJson(BadResponseDoc)}

\* the requests sent through the whole pipeline
GatewayRequests ==
    {Request("POST", "v1", "", "", "", UsersPath, TRUE, TRUE, PayloadOne),
     Request("POST", "v1", "", "", "", UsersPath, TRUE, TRUE, ZeroValue),
     Request("POST", "v1", "", "", "", UsersPath, TRUE, FALSE, NullValue),
     Request("POST", "", "", "", "", UsersPath, TRUE, TRUE, PayloadOne),
     Request("GET", "", "", "", "v2", UsersPath, FALSE, FALSE, NullValue),
     Request("POST", "constructor", "", "", "", UsersPath, TRUE, TRUE, PayloadOne),
     Request("POST", "", "", "", "", V3UsersPath, TRUE, TRUE, PayloadOne)}

\* the requests that carry a version in every combination of places
DetectRequests ==
    {Request("GET", h, x, q, p, path, FALSE, FALSE, NullValue) :
        h \in {"", "v1"}, x \in {"", "v4"}, q \in {"", "v5"}, p \in {"", "v2"},
        path \in RequestPaths}

\* the stages of fetch() between getVersionTransformation and the response
\* mutant: the upstream is called before the request leg
PipelineFetchFirst == <<"fetch", "requestLeg", "responseLeg">>

Pipeline == <<"requestLeg", "fetch", "responseLeg">>

StageAfter(stage) ==
    LET i == CHOOSE j \in DOMAIN Pipeline : Pipeline[j] = stage
    IN IF i < Len(Pipeline) THEN Pipeline[i + 1] ELSE "respond"

\* the steps of fetch() that its try block encloses
\* mutant: the try block ends before the upstream call
FetchTryEnclosesUntilUpstream ==
    {"parseRequestContext", "loadConfig", "isSupportedVersion", "getSupportedVersions",
     "getVersionTransformation", "requestLeg"}

FetchTryEncloses ==
    {"parseRequestContext", "loadConfig", "isSupportedVersion", "getSupportedVersions",
     "getVersionTransformation", "requestLeg", "fetch", "responseLeg", "respond"}

\* the request the gateway has taken up, with context.body as upstreamBody
NewRequest(request) ==
    LET context == ParseRequestContext(request)
    IN [pc |-> "loadConfig", req |-> request, context |-> context,
        config |-> NoTransformationsDoc, apiVersion |-> "", vt |-> PassThrough,
        upstreamBody |-> context.body, forwarded |-> NoForward, answer |-> NoAnswer,
        responseData |-> NullValue, transformedResponse |-> NullValue,
        trace |-> <<>>, response |-> NoGatewayResponse,
        completion |-> "pending", caught |-> "",
        supported |-> "unknown", supportConfig |-> NoTransformationsDoc,
        listConfig |-> NoTransformationsDoc, vtConfig |-> NoTransformationsDoc,
        responses |-> 0,
        requestLeg |-> "none", responseLeg |-> "none",
        requestHit |-> FALSE, responseHit |-> FALSE]

\* fetch() returns a response
Respond(g, response) ==
    [g EXCEPT !.pc = "done", !.response = response, !.completion = "returned",
              !.responses = @ + 1]

\* a step of fetch() throws: inside the try block the catch block answers
Throw(g, step, message) ==
    IF step \in FetchTryEncloses
    THEN [Respond(g, UnhandledErrorResponse(message)) EXCEPT !.caught = step]
    ELSE [g EXCEPT !.pc = "done", !.completion = "rejected"]

\* fetch() moves to the stage after `stage`, or builds the JSON response
Proceed(g, stage) ==
    IF StageAfter(stage) = "respond"
    THEN Respond(g, JsonResponse(g.transformedResponse, g.answer.status, g.apiVersion,
                                 g.config.upstreamVersion))
    ELSE [g EXCEPT !.pc = StageAfter(stage)]

\* the guard of a leg: a body, a version other than the upstream's, and an
\* expression other than '$'
LegNeeded(body, apiVersion, config, leg) ==
    /\ Truthy(body)
    /\ apiVersion # config.upstreamVersion
    /\ leg.expression # IdentitySource

\* the context handed to transform() for a leg
LegContext(from, to, direction) ==
    [fromVersion |-> from, toVersion |-> to, direction |-> direction, timeout |-> 0]

\* the upstream request: a body and a Content-Type only for a truthy body
\* mutant: the Content-Type is set on every upstream request
ForwardTyped(upstreamBody) ==
    [issued |-> TRUE, hasBody |-> Truthy(upstreamBody),
     body |-> IF Truthy(upstreamBody) THEN upstreamBody ELSE NullValue,
     headers |-> ("X-Forwarded-For" :> "") @@ ("X-Request-ID" :> RequestId)
                 @@ ("Content-Type" :> "application/json")]

Forward(upstreamBody) ==
    [issued |-> TRUE, hasBody |-> Truthy(upstreamBody),
     body |-> IF Truthy(upstreamBody) THEN upstreamBody ELSE NullValue,
     headers |-> ("X-Forwarded-For" :> "") @@ ("X-Request-ID" :> RequestId)
                 @@ (IF Truthy(upstreamBody)
                     THEN "Content-Type" :> "application/json" ELSE <<>>)]

\* how a leg's transform() ended
LegResult(r) ==
    IF r.completion # "returned" THEN "rejected"
    ELSE IF r.outcome.success THEN "succeeded" ELSE "failed"

\* fetch() after the request leg's transform(): a failure is answered with
\* a 400, a success gives the body to forward
\* mutant: a failed request leg is run again
AfterRequestLegRetrying(g, outcome) ==
    IF ~outcome.success THEN g
    ELSE Proceed([g EXCEPT !.upstreamBody = outcome.data], "requestLeg")

\* mutant: the outcome's data is forwarded whatever its success
AfterRequestLegForwarding(g, outcome) ==
    Proceed([g EXCEPT !.upstreamBody = outcome.data], "requestLeg")

AfterRequestLeg(g, outcome) ==
    IF ~outcome.success
    THEN Respond(g, CreateErrorResponse(
             ErrorBody("Request transformation failed", outcome.error.detail, <<>>, ""),
             StatusBadRequest, g.apiVersion))
    ELSE Proceed([g EXCEPT !.upstreamBody = outcome.data], "requestLeg")

\* transformedResponse after the response leg's transform()
\* mutant: a failed response leg leaves nothing to return
ResponseLegResultNull(outcome, responseData) ==
    IF ~outcome.success THEN NullValue ELSE outcome.data

ResponseLegResult(outcome, responseData) ==
    IF ~outcome.success THEN responseData ELSE outcome.data

----------------------------------------------------------------------------
(* The gateway's fetch handler serving one request after another, each     *)
(* with a loader and a transformer of its own, over a store and an         *)
(* upstream that answer as they like.  The handler moves at its awaits.    *)

InitGateway ==
    /\ now = 0
    /\ TransformerAtRest
    /\ kv \in GatewayStoreValues
    /\ envTtl \in EnvTtlOptions
    /\ LoaderNew
    /\ gw = NoRequest
    /\ previousCache = <<>>

\* fetch() up to the get of loadConfig: the context is parsed, the loader
\* and the transformer are created
GwReceive(requests) ==
    /\ gw.pc \in {"idle", "done"}
    /\ \E request \in requests : gw' = NewRequest(request)
    /\ previousCache' = cache
    /\ cfgCache' = NoConfigCache
    /\ cleared' = FALSE
    /\ cache' = <<>>
    /\ touchOrder' = <<>>
    /\ maxSize' = DefaultCacheSize
    /\ defaultTimeout' = DefaultTimeoutMs
    /\ lastLoad' = NoLoad
    /\ UNCHANGED <<now, lastTransform, lastCacheOp, kv, envTtl, loads>>

\* what the gateway's steps leave alone besides gw and the loader's cache
GwFrame == UNCHANGED <<now, xfVars, kv, envTtl, cleared, loads, lastLoad, previousCache>>

\* loadConfig() returns; the effective version
GwLoadConfig ==
    /\ gw.pc = "loadConfig"
    /\ \E r \in {ResolveConfig(cfgCache, kv, envTtl, now)} :
          /\ cfgCache' = r.cache
          /\ gw' = [gw EXCEPT !.pc = "isSupportedVersion", !.config = r.config,
                              !.apiVersion = OrElseText(gw.context.apiVersion,
                                                        r.config.defaultVersion)]
    /\ GwFrame

\* isSupportedVersion(apiVersion) returns
GwIsSupportedVersion ==
    /\ gw.pc = "isSupportedVersion"
    /\ \E r \in {ResolveConfig(cfgCache, kv, envTtl, now)} :
          /\ cfgCache' = r.cache
          /\ gw' = [gw EXCEPT !.pc = IF IsSupportedIn(r.config, gw.apiVersion)
                                     THEN "getVersionTransformation"
                                     ELSE "getSupportedVersions",
                              !.supported = IF IsSupportedIn(r.config, gw.apiVersion)
                                            THEN "yes" ELSE "no",
                              !.supportConfig = r.config]
    /\ GwFrame

\* getSupportedVersions(path) returns and the 400 is built
GwGetSupportedVersions ==
    /\ gw.pc = "getSupportedVersions"
    /\ \E r \in {ResolveConfig(cfgCache, kv, envTtl, now)} :
          /\ cfgCache' = r.cache
          /\ gw' = Respond([gw EXCEPT !.listConfig = r.config],
                           CreateErrorResponse(
                               ErrorBody("Unsupported API version", gw.apiVersion,
                                         GetSupportedVersions(r.config, gw.context.path), ""),
                               StatusBadRequest, gw.apiVersion))
    /\ GwFrame

\* getVersionTransformation(apiVersion) returns or throws
GwGetVersionTransformation ==
    /\ gw.pc = "getVersionTransformation"
    /\ \E r \in {ResolveConfig(cfgCache, kv, envTtl, now)} :
          /\ cfgCache' = r.cache
          /\ \E t \in {GetVersionTransformation(r.config, gw.apiVersion)},
                g \in {[gw EXCEPT !.vtConfig = r.config]} :
                gw' = IF t.threw
                      THEN Throw(g, "getVersionTransformation",
                                 "Cannot read properties of undefined")
                      ELSE IF ~t.found
                      THEN Respond(g, CreateErrorResponse(
                               ErrorBody("Configuration error", gw.apiVersion, <<>>, ""),
                               StatusServerError, gw.apiVersion))
                      ELSE [g EXCEPT !.pc = Pipeline[1], !.vt = t.vt]
    /\ GwFrame

\* a leg's transform() on the request's transformer
GwTransform(data, expr, context, beh) ==
    Transform(cache, maxSize, defaultTimeout, now, data, expr, context, beh)

\* the request leg: transform() when the guard holds; its failure is a 400
GwRequestLeg ==
    /\ gw.pc = "requestLeg"
    /\ IF LegNeeded(gw.context.body, gw.apiVersion, gw.config, gw.vt.request.leg)
       THEN \E beh \in EvalBehaviours :
              \E r \in {GwTransform(gw.context.body, gw.vt.request.leg,
                            LegContext(gw.apiVersion, gw.config.upstreamVersion, "request"),
                            beh)} :
                /\ r.now <= MaxNow
                /\ now' = r.now
                /\ cache' = r.cache
                /\ \E g \in {[gw EXCEPT !.trace = Append(gw.trace, "requestLeg"),
                                         !.requestLeg = LegResult(r),
                                         !.requestHit = r.comp.hit]} :
                      gw' = IF r.completion # "returned"
                            THEN Throw(g, "requestLeg", "transform rejected")
                            ELSE AfterRequestLeg(g, r.outcome)
       ELSE /\ gw' = Proceed(gw, "requestLeg")
            /\ UNCHANGED <<now, cache>>
    /\ UNCHANGED <<maxSize, defaultTimeout, touchOrder, lastTransform, lastCacheOp, cfgVars,
                   previousCache>>

\* the upstream request is built and fetch(upstreamRequest) is called
GwFetch ==
    /\ gw.pc = "fetch"
    /\ gw' = [gw EXCEPT !.pc = "fetching", !.forwarded = Forward(gw.upstreamBody),
                        !.trace = Append(gw.trace, "fetchIssued")]
    /\ UNCHANGED <<now, xfVars, cfgVars, previousCache>>

\* the upstream answers: a rejection is thrown, a non-JSON answer is passed
\* through, the JSON of any other is parsed
GwFetchAnswer(answers) ==
    /\ gw.pc = "fetching"
    /\ \E answer \in answers :
         \E g \in {[gw EXCEPT !.answer = answer, !.trace = Append(gw.trace, "fetchDone")]} :
            gw' = IF answer.kind = "rejects"
                  THEN Throw(g, "fetch", "fetch failed")
                  ELSE IF ~answer.jsonContentType
                  THEN Respond(g, PassThroughResponse(answer, gw.apiVersion))
                  ELSE LET responseData == IF answer.parses THEN answer.content
                                           ELSE NullValue
                       IN Proceed([g EXCEPT !.responseData = responseData,
                                            !.transformedResponse = responseData],
                                  "fetch")
    /\ UNCHANGED <<now, xfVars, cfgVars, previousCache>>

\* the response leg: transform() when the guard holds; on its failure the
\* upstream's JSON is kept
GwResponseLeg ==
    /\ gw.pc = "responseLeg"
    /\ IF LegNeeded(gw.responseData, gw.apiVersion, gw.config, gw.vt.response.leg)
       THEN \E beh \in EvalBehaviours :
              \E r \in {GwTransform(gw.responseData, gw.vt.response.leg,
                            LegContext(gw.config.upstreamVersion, gw.apiVersion, "response"),
                            beh)} :
                /\ r.now <= MaxNow
                /\ now' = r.now
                /\ cache' = r.cache
                /\ \E g \in {[gw EXCEPT !.trace = Append(gw.trace, "responseLeg"),
                                         !.responseLeg = LegResult(r),
                                         !.responseHit = r.comp.hit]} :
                      gw' = IF r.completion # "returned"
                            THEN Throw(g, "responseLeg", "transform rejected")
                            ELSE Proceed([g EXCEPT !.transformedResponse =
                                              ResponseLegResult(r.outcome, gw.responseData)],
                                         "responseLeg")
       ELSE /\ gw' = Proceed(gw, "responseLeg")
            /\ UNCHANGED <<now, cache>>
    /\ UNCHANGED <<maxSize, defaultTimeout, touchOrder, lastTransform, lastCacheOp, cfgVars,
                   previousCache>>

GwStoreChange == StoreChangeIn(GatewayStoreValues)

GwRequest == GwReceive(GatewayRequests)

GwUpstream == GwFetchAnswer(UpstreamAnswers)

NextGateway ==
    \/ GwRequest
    \/ GwLoadConfig
    \/ GwIsSupportedVersion
    \/ GwGetSupportedVersions
    \/ GwGetVersionTransformation
    \/ GwRequestLeg
    \/ GwFetch
    \/ GwUpstream
    \/ GwResponseLeg
    \/ GwStoreChange
    \/ Tick

SpecGateway == InitGateway /\ [][NextGateway]_vars

\* the same handler given every placement of a version in a request, over
\* an upstream that answers with JSON
DetectAnswers == {UpstreamResponse(StatusOk, TRUE, TRUE, PayloadTwo)}

GwDetectRequest == GwReceive(DetectRequests)

GwDetectUpstream == GwFetchAnswer(DetectAnswers)

NextDetect ==
    \/ GwDetectRequest
    \/ GwLoadConfig
    \/ GwIsSupportedVersion
    \/ GwGetSupportedVersions
    \/ GwGetVersionTransformation
    \/ GwRequestLeg
    \/ GwFetch
    \/ GwDetectUpstream
    \/ GwResponseLeg
    \/ GwStoreChange

SpecDetect == InitGateway /\ [][NextDetect]_vars

----------------------------------------------------------------------------
(* Properties of the transformation engine *)

\* context.timeout, else the configured default
EffectiveTimeout(context) ==
    IF context.timeout # 0 THEN context.timeout ELSE defaultTimeout

IsEmptyMessage(e) == e.text = "" /\ e.detail = ""

\* C1: a transform whose evaluation runs longer than the effective timeout
\* returns success = false with the error "Transformation timeout after <N>ms",
\* N the effective timeout.
C1_TimeoutEnforced ==
    (lastTransform.op = "transform" /\ lastTransform.evaluated
        /\ lastTransform.evalDur > EffectiveTimeout(lastTransform.context))
    => /\ ~lastTransform.outcome.success
       /\ lastTransform.outcome.error = TimeoutError(EffectiveTimeout(lastTransform.context))

\* C2: the compiled form a transform evaluates is the compiled form of the
\* full source text that was passed in, whatever was cached before.
C2_CompiledFormOfSource ==
    (lastTransform.op = "transform" /\ lastTransform.evaluated)
    => lastTransform.used.text = lastTransform.expr.expression

\* C3: a failed outcome carries exactly the original input as data and a
\* non-empty error message.
C3_FailurePolicy ==
    (lastTransform.op = "transform" /\ ~lastTransform.outcome.success)
    => /\ lastTransform.outcome.data = lastTransform.data
       /\ ~IsEmptyMessage(lastTransform.outcome.error)

\* C3 witness: a transform failed inside the evaluation of a compiled source
C3_Witness ==
    /\ lastTransform.op = "transform"
    /\ ~lastTransform.outcome.success
    /\ lastTransform.threwAt = "execute"
    /\ lastTransform.outcome.data = lastTransform.data

\* C4: transform() completes by returning an outcome, never by rejecting,
\* for every input, expression (malformed or missing source too) and context.
C4_NeverThrows ==
    lastTransform.op = "transform" => lastTransform.completion = "returned"

\* C4 witness: a transform of an expression with no source returned a failure
C4_Witness ==
    /\ lastTransform.op = "transform"
    /\ ~lastTransform.expr.has
    /\ lastTransform.completion = "returned"
    /\ ~lastTransform.outcome.success

\* C5: after a transform whose source fails to compile the cache holds no
\* entry for that source and its size is what it was before the transform.
C5_FailedCompileLeavesCache ==
    (lastTransform.op = "transform" /\ lastTransform.tried
        /\ lastTransform.threwAt = "compile")
    => /\ ~lastTransform.hasKeyAfter
       /\ lastTransform.sizeAfter = lastTransform.sizeBefore

\* C6: an insert into a cache that holds as many entries as its capacity
\* removes exactly one entry, the least recently touched one (insert and
\* hit both touch), and leaves the cache at its capacity.
C6_LruEviction ==
    (lastTransform.op = "transform" /\ lastTransform.didSet
        /\ lastTransform.sizeAfterGet = maxSize)
    => /\ lastTransform.evicted = <<lastTransform.lruBeforeSet>>
       /\ lastTransform.sizeAfter = maxSize

\* C6 witness: an insert evicted an entry that was cached later than an entry
\* that stays (the older one had been promoted by a hit)
C6_Witness ==
    /\ lastTransform.op = "transform"
    /\ lastTransform.didSet
    /\ lastTransform.sizeAfterGet = maxSize
    /\ Len(lastTransform.evicted) = 1
    /\ \E i \in 1..Len(cache) :
          /\ cache[i].key # CacheKey(lastTransform.expr.expression)
          /\ cache[i].cachedAt < lastTransform.evictedAt

\* C22: transform() with the expression '$' returns success = true and the
\* payload as data, and transform() with '$' applied to that result returns
\* the same payload again.
C22_IdentityTransform ==
    (lastTransform.op = "transform" /\ lastTransform.expr.has
        /\ lastTransform.expr.expression = IdentitySource)
    => /\ lastTransform.outcome.success
       /\ lastTransform.outcome.data = lastTransform.data
       /\ \A context \in Contexts, beh \in EvalBehaviours :
             LET again == Transform(cache, maxSize, defaultTimeout, now,
                                    lastTransform.outcome.data, lastTransform.expr,
                                    context, beh)
             IN /\ again.completion = "returned"
                /\ again.outcome.success
                /\ again.outcome.data = lastTransform.data

\* an identity transform served from the cache, whose evaluation was one
\* that throws for other expressions, returned its payload
C22_Witness ==
    /\ lastTransform.op = "transform"
    /\ lastTransform.expr.has
    /\ lastTransform.expr.expression = IdentitySource
    /\ lastTransform.hit
    /\ lastTransform.evalDur > 0
    /\ lastTransform.outcome.success
    /\ lastTransform.outcome.data = lastTransform.data

\* C23: every outcome transform() returns, successful or failed, carries
\* metrics whose durationMs is not negative and whose fromVersion, toVersion
\* and direction are those of the context of the call.
C23_MetricsOnEveryOutcome ==
    lastTransform.op = "transform"
    => /\ lastTransform.completion = "returned"
       /\ lastTransform.outcome.metrics.durationMs >= 0
       /\ lastTransform.outcome.metrics.fromVersion = lastTransform.context.fromVersion
       /\ lastTransform.outcome.metrics.toVersion = lastTransform.context.toVersion
       /\ lastTransform.outcome.metrics.direction = lastTransform.context.direction

\* a failed transform of the response direction that ran for a while
\* returned its metrics
C23_Witness ==
    /\ lastTransform.op = "transform"
    /\ ~lastTransform.outcome.success
    /\ lastTransform.context.direction = "response"
    /\ lastTransform.outcome.metrics.durationMs = TickMs
    /\ lastTransform.outcome.metrics.fromVersion = "v2"
    /\ lastTransform.outcome.metrics.toVersion = "v1"

----------------------------------------------------------------------------
(* Properties of the expression cache *)

\* C7: a get for an entry older than its TTL returns nothing and deletes the
\* entry (the size drops by one); a get for an entry whose age is at most its
\* TTL returns the cached compiled form and deletes nothing.
C7_TtlExpiryOnGet ==
    (lastCacheOp.op = "get" /\ lastCacheOp.had)
    => IF lastCacheOp.age > lastCacheOp.ttl
       THEN /\ lastCacheOp.result = NullExpr
            /\ ~lastCacheOp.hasAfter
            /\ lastCacheOp.sizeAfter = lastCacheOp.sizeBefore - 1
       ELSE /\ lastCacheOp.result = lastCacheOp.held
            /\ lastCacheOp.result.compiled
            /\ lastCacheOp.hasAfter
            /\ lastCacheOp.sizeAfter = lastCacheOp.sizeBefore

\* C7 witness: a get met an entry older than its TTL, still in the cache
\* until then, and removed it
C7_Witness ==
    /\ lastCacheOp.op = "get"
    /\ lastCacheOp.had
    /\ lastCacheOp.age > lastCacheOp.ttl
    /\ lastCacheOp.result = NullExpr
    /\ lastCacheOp.sizeAfter = lastCacheOp.sizeBefore - 1

\* C8: size() never exceeds the configured capacity, and is 0 after clear().
C8_CapacityBound ==
    /\ CacheSize(cache) <= maxSize
    /\ lastCacheOp.op = "clear" => CacheSize(cache) = 0

\* C8 witness: a set on a full cache left it at its capacity
C8_Witness ==
    /\ lastCacheOp.op = "set"
    /\ ~lastCacheOp.had
    /\ lastCacheOp.sizeBefore = maxSize
    /\ CacheSize(cache) = maxSize

----------------------------------------------------------------------------
(* Properties of the configuration loader *)

\* the store's answer gave loadConfig no configuration: the get threw,
\* resolved to nothing, to text that is not JSON, or to a document that
\* validateConfig refuses
NoConfigFromStore(resp) ==
    \/ resp.kind \in {"unavailable", "absent", "malformed"}
    \/ resp.kind = "json" /\ ValidateConfig(resp.doc) # ""

\* C9: a loadConfig whose store read threw, returned nothing, returned
\* malformed JSON or returned a document that fails validation returns to
\* its caller (it does not raise) the built-in default configuration, in
\* which v1 and v2 are supported, and isSupportedVersion answers so.
C9_SafeFallback ==
    (lastLoad.op = "load" /\ lastLoad.read /\ NoConfigFromStore(lastLoad.response))
        => /\ lastLoad.completion = "returned"
           /\ lastLoad.config = GetDefaultConfig(lastLoad.at)
           /\ IsSupportedIn(lastLoad.config, "v1")
           /\ IsSupportedIn(lastLoad.config, "v2")
           /\ (lastLoad.call.op = "isSupportedVersion" /\ lastLoad.call.version \in {"v1", "v2"}
                   => lastLoad.answer)

\* an isSupportedVersion("v1") read a document that validateConfig refused
\* and answered true from the default configuration
C9_Witness ==
    /\ lastLoad.op = "load"
    /\ lastLoad.read
    /\ lastLoad.response.kind = "json"
    /\ ValidateConfig(lastLoad.response.doc) # ""
    /\ lastLoad.call = [op |-> "isSupportedVersion", version |-> "v1"]
    /\ lastLoad.answer
    /\ lastLoad.config.generatedBy = "default-config"

\* a document that has to be rejected: no version, no defaultVersion, a
\* missing or empty transformations map, or a version with a leg or a leg's
\* source text missing or empty
InvalidDocument(doc) ==
    \/ doc.version = ""
    \/ doc.defaultVersion = ""
    \/ ~doc.transformations.present
    \/ DOMAIN doc.transformations.map = {}
    \/ \E v \in DOMAIN doc.transformations.map :
          LET vt == doc.transformations.map[v]
          IN \/ ~vt.request.present
             \/ ~vt.response.present
             \/ NoText(vt.request.leg)
             \/ NoText(vt.response.leg)

\* C10: a stored document that lacks version or defaultVersion, has a
\* missing or empty transformations map, or has a version with a missing or
\* empty leg or leg source, is never returned by loadConfig and never put in
\* the loader's cache; the default configuration is used instead.
C10_InvalidDocumentRejected ==
    /\ (lastLoad.op = "load" /\ lastLoad.read /\ lastLoad.response.kind = "json"
            /\ InvalidDocument(lastLoad.response.doc))
        => /\ ~lastLoad.fromStore
           /\ lastLoad.config = GetDefaultConfig(lastLoad.at)
    /\ lastLoad.op = "load" => ~InvalidDocument(lastLoad.config)
    /\ cfgCache.has => ~InvalidDocument(cfgCache.config)

\* C11: a loadConfig that starts while the loader holds a cached document
\* whose age is strictly less than its TTL returns that document without
\* reading the store; one that starts when the age has reached the TTL reads
\* the store again.
C11_ConfigCaching ==
    (lastLoad.op = "load" /\ lastLoad.call.op # "reload" /\ lastLoad.cacheAtStart.has)
        => LET c == lastLoad.cacheAtStart
               age == lastLoad.startedAt - c.cachedAt
           IN /\ age < c.ttl => ~lastLoad.read /\ lastLoad.config = c.config
              /\ age >= c.ttl => lastLoad.read

\* a loadConfig started when the cached document's age was exactly its TTL
\* and read the store
C11_Witness ==
    /\ lastLoad.op = "load"
    /\ lastLoad.call.op = "loadConfig"
    /\ lastLoad.cacheAtStart.has
    /\ lastLoad.startedAt - lastLoad.cacheAtStart.cachedAt = lastLoad.cacheAtStart.ttl
    /\ lastLoad.read

\* C12: the first loadConfig to start after a clearCache() has returned
\* reads the store, whatever other loadConfig was awaiting its read when the
\* cache was cleared.
C12_ClearForcesRead ==
    (lastLoad.op = "load" /\ lastLoad.afterClear) => lastLoad.read

\* C24: isSupportedVersion(v) is true exactly when v is a key of the
\* transformations map of the configuration it resolved.
C24_VersionMembership ==
    (lastLoad.op = "load" /\ lastLoad.call.op = "isSupportedVersion")
        => /\ lastLoad.completion = "returned"
           /\ lastLoad.answer
                  = (lastLoad.call.version \in DOMAIN lastLoad.config.transformations.map)

\* C29: a loadConfig that fell back to the default configuration caches it
\* under the loader's TTL, and every loadConfig that starts while that
\* default is younger than the TTL returns it without reading the store,
\* whatever the store holds by then.
C29_FallbackCached ==
    /\ (lastLoad.op = "load" /\ lastLoad.read /\ ~lastLoad.fromStore)
          => cfgCache = CacheConfig(GetDefaultConfig(lastLoad.at), envTtl, lastLoad.at)
    /\ (lastLoad.op = "load" /\ lastLoad.call.op # "reload" /\ lastLoad.cacheAtStart.has
            /\ lastLoad.cacheAtStart.config.generatedBy = "default-config"
            /\ lastLoad.startedAt - lastLoad.cacheAtStart.cachedAt < lastLoad.cacheAtStart.ttl)
          => /\ ~lastLoad.read
             /\ lastLoad.config = GetDefaultConfig(lastLoad.cacheAtStart.cachedAt)

\* the default cached a second ago was returned without a read while the
\* store held a valid document
C29_Witness ==
    /\ lastLoad.op = "load"
    /\ lastLoad.call.op = "loadConfig"
    /\ ~lastLoad.read
    /\ lastLoad.config.generatedBy = "default-config"
    /\ lastLoad.at > lastLoad.cacheAtStart.cachedAt
    /\ kv = StoreJson(StoredConfig)

----------------------------------------------------------------------------
(* Properties of the gateway *)

\* the request has been taken up
Serving == gw.pc # "idle"

\* fetch() is over
Served == gw.pc = "done"

\* the leading path segment of the form v<digits> followed by a slash
LeadingVersions(path) ==
    {v \in DOMAIN Spelling :
        /\ Len(path.chars) >= Len(Spelling[v]) + 2
        /\ SubSeq(path.chars, 1, Len(Spelling[v]) + 2) = <<"/">> \o Spelling[v] \o <<"/">>}

\* the version a request declares, by precedence of the places
DeclaredVersion(request) ==
    IF request.apiVersionHeader # "" THEN request.apiVersionHeader
    ELSE IF request.xApiVersionHeader # "" THEN request.xApiVersionHeader
    ELSE IF request.apiVersionParam # "" THEN request.apiVersionParam
    ELSE IF request.versionParam # "" THEN request.versionParam
    ELSE IF LeadingVersions(request.path) # {}
    THEN CHOOSE v \in LeadingVersions(request.path) : TRUE
    ELSE ""

\* C13: the detected version is the API-Version header, else the
\* X-API-Version header, else the api-version parameter, else the version
\* parameter, else the leading /v<digits>/ segment of the path, else empty;
\* the effective version is the detected one or, when that is empty, the
\* defaultVersion of the configuration loadConfig returned.
C13_VersionPrecedence ==
    Serving =>
        /\ gw.context.apiVersion = DeclaredVersion(gw.req)
        /\ gw.pc # "loadConfig" =>
              gw.apiVersion = IF DeclaredVersion(gw.req) # ""
                              THEN DeclaredVersion(gw.req)
                              ELSE gw.config.defaultVersion

\* the request with API-Version: v1, ?version=v2 and path /v3/users was
\* served as v1
C13_Witness ==
    /\ Served
    /\ gw.req.apiVersionHeader = "v1"
    /\ gw.req.versionParam = "v2"
    /\ gw.req.path = V3UsersPath
    /\ gw.apiVersion = "v1"

\* nothing of the engine or the upstream was used for the request
NothingInvoked == gw.trace = <<>> /\ ~gw.forwarded.issued

\* C14: a request whose effective version is not a key of the
\* transformations of the configuration isSupportedVersion resolved ends
\* with a 400 that lists the supported versions of its route, with neither
\* the engine nor the upstream invoked.
C14_UnsupportedVersionRejected ==
    (Served /\ gw.supported # "unknown"
            /\ gw.apiVersion \notin DOMAIN gw.supportConfig.transformations.map)
        => /\ gw.response.status = StatusBadRequest
           /\ gw.response.body.error = "Unsupported API version"
           /\ gw.response.body.supportedVersions
                  = GetSupportedVersions(gw.listConfig, gw.context.path)
           /\ NothingInvoked

\* C15: a request whose request-leg transform() returned success = false
\* ends with a 400 and the upstream is never called for it.
C15_RequestLegFailureTerminal ==
    (Serving /\ gw.requestLeg = "failed")
        => /\ Served
           /\ gw.response.status = StatusBadRequest
           /\ gw.response.body.error = "Request transformation failed"
           /\ ~gw.forwarded.issued
           /\ "fetchIssued" \notin {gw.trace[i] : i \in DOMAIN gw.trace}

\* a request leg failed on an expression that does not compile
C15_Witness ==
    /\ Served
    /\ gw.requestLeg = "failed"
    /\ gw.vt.request.leg.expression = BadSource
    /\ gw.response.status = StatusBadRequest

\* C16: when the upstream answered with a JSON body and the response-leg
\* transform() returned success = false, the response carries the
\* upstream's JSON unchanged with the upstream's status, and is no error
\* response of the gateway.
C16_ResponseLegFailureDegrades ==
    (Served /\ gw.responseLeg = "failed")
        => /\ gw.completion = "returned"
           /\ gw.response.status = gw.answer.status
           /\ gw.response.body = JsonBody(gw.answer.content)
           /\ gw.response.body.kind = "json"

\* the request leg succeeded, the response leg did not compile, the
\* upstream's 200 and JSON were returned
C16_Witness ==
    /\ Served
    /\ gw.requestLeg = "succeeded"
    /\ gw.responseLeg = "failed"
    /\ gw.vt.response.leg.expression = BadSource
    /\ gw.answer.status = StatusOk
    /\ gw.response.status = StatusOk
    /\ gw.response.body.value = PayloadTwo

\* positions of an event in the request's trace
Positions(event) == {i \in DOMAIN gw.trace : gw.trace[i] = event}

\* every `first` event is before every `second` event
Before(first, second) ==
    \A i \in Positions(first), j \in Positions(second) : i < j

\* C17: within a request the request leg is over before the upstream call
\* is issued, the upstream call is over before the response leg starts, and
\* the response leg runs only in a request whose upstream call was made.
C17_Ordering ==
    Serving =>
        /\ Before("requestLeg", "fetchIssued")
        /\ Before("fetchIssued", "fetchDone")
        /\ Before("fetchDone", "responseLeg")
        /\ Positions("responseLeg") # {} => Positions("fetchDone") # {}
        /\ Positions("fetchDone") # {} => Positions("fetchIssued") # {}

\* both legs ran around the upstream call
C17_Witness ==
    Served /\ gw.trace = <<"requestLeg", "fetchIssued", "fetchDone", "responseLeg">>

\* C18: the engine is not invoked for a leg whose expression is '$', nor
\* for either leg when the effective version is the configuration's
\* upstream version, and in those cases the body is forwarded, and the
\* upstream's JSON returned, unchanged.
C18_SkipRule ==
    Serving =>
        LET sameVersion == gw.apiVersion = gw.config.upstreamVersion
            requestSkipped == sameVersion \/ gw.vt.request.leg.expression = IdentitySource
            responseSkipped == sameVersion \/ gw.vt.response.leg.expression = IdentitySource
        IN /\ requestSkipped => gw.requestLeg = "none" /\ Positions("requestLeg") = {}
           /\ responseSkipped => gw.responseLeg = "none" /\ Positions("responseLeg") = {}
           /\ (requestSkipped /\ gw.forwarded.issued)
                  => /\ gw.forwarded.body = gw.context.body
                     /\ gw.forwarded.hasBody = (gw.context.body # NullValue)
           /\ (responseSkipped /\ Served /\ gw.response.body.kind = "json")
                  => gw.response.body.value = gw.responseData

\* C19: every response of the gateway carries the X-API-Version and the
\* X-Request-ID headers.
C19_ObservabilityHeaders ==
    (Served /\ gw.completion = "returned")
        => {"X-API-Version", "X-Request-ID"} \subseteq DOMAIN gw.response.headers

\* C20: a throw while the request is handled is caught and answered with a
\* 500 whose body carries the request id; fetch() never rejects.
C20_TopLevelConversion ==
    /\ Served => gw.completion = "returned"
    /\ (Served /\ (gw.answer.kind = "rejects" \/ gw.caught # ""))
          => /\ gw.caught # ""
             /\ gw.response.status = StatusServerError
             /\ gw.response.body.error = "Internal server error"
             /\ gw.response.body.requestId = RequestId

\* the upstream call failed and the request was answered with the 500
C20_Witness ==
    /\ Served
    /\ gw.answer.kind = "rejects"
    /\ gw.caught = "fetch"
    /\ gw.response.status = StatusServerError
    /\ gw.response.body.requestId = RequestId

\* C30: in a request whose isSupportedVersion(v) returned true the
\* getVersionTransformation(v) that follows returns a transformation, so
\* that no request ends with the 500 "Configuration error".
C30_ConfigurationErrorUnreachable ==
    (Served /\ gw.supported = "yes")
        => /\ gw.response.body.error # "Configuration error"
           /\ gw.caught # "getVersionTransformation"

\* the request before compiled the source and its entry is within its TTL
CompiledBefore(text) ==
    \E i \in DOMAIN previousCache :
        /\ previousCache[i].key = CacheKey(text)
        /\ previousCache[i].expression.text = text
        /\ ~Expired(previousCache[i], now)

\* C21: a leg whose source was compiled while the request before was served,
\* and whose entry is within its TTL, takes the compiled form from the cache
\* and does not compile the source again.
C21_SharedExpressionCache ==
    Serving =>
        /\ (gw.requestLeg # "none" /\ CompiledBefore(gw.vt.request.leg.expression))
              => gw.requestHit
        /\ (gw.responseLeg # "none" /\ CompiledBefore(gw.vt.response.leg.expression))
              => gw.responseHit

\* C25: getSupportedVersions(routePath) returns the routing entry of the
\* route as it is when the configuration's routing map has one, and
\* otherwise exactly the keys of the transformations map, each once.
C25_SupportedVersionsOfRoute ==
    (lastLoad.op = "load" /\ lastLoad.call.op = "getSupportedVersions")
        => /\ lastLoad.completion = "returned"
           /\ IF lastLoad.call.path \in DOMAIN lastLoad.config.routing
              THEN lastLoad.versions = lastLoad.config.routing[lastLoad.call.path]
              ELSE /\ Len(lastLoad.versions)
                        = Cardinality(DOMAIN lastLoad.config.transformations.map)
                   /\ {lastLoad.versions[i] : i \in DOMAIN lastLoad.versions}
                        = DOMAIN lastLoad.config.transformations.map

\* a route whose entry is not the list of the keys was asked for
C25_Witness ==
    /\ lastLoad.op = "load"
    /\ lastLoad.call.op = "getSupportedVersions"
    /\ lastLoad.call.path = "/users"
    /\ lastLoad.fromStore
    /\ lastLoad.versions = <<"v2", "v1">>

\* C26: every getVersionTransformation(v) for a version whose leg is a
\* reference in the configuration document fetches that leg from the store,
\* whatever an earlier call resolved.
C26_ReferenceFetchedOnEveryCall ==
    (/\ lastLoad.op = "load"
     /\ lastLoad.call.op = "getVersionTransformation"
     /\ lastLoad.transformation.found)
        => \A name \in {"request", "response"} :
              StartsWithKv(LegOf(lastLoad.document.transformations.map[lastLoad.call.version],
                                 name).leg.expression)
                  => \E i \in DOMAIN lastLoad.fetches : lastLoad.fetches[i].leg = name

\* C27: a getVersionTransformation that fetched a reference returns; the leg
\* it returns holds the reference as it was when the fetch failed or gave
\* nothing, and the fetched content when the fetch gave some.
C27_ReferenceDegradation ==
    (lastLoad.op = "load" /\ lastLoad.call.op = "getVersionTransformation")
        => \A i \in DOMAIN lastLoad.fetches :
              /\ lastLoad.completion = "returned"
              /\ StartsWithKv(lastLoad.fetches[i].before)
              /\ lastLoad.fetches[i].after
                    = IF lastLoad.fetches[i].answer.kind = "text"
                         /\ lastLoad.fetches[i].answer.text # <<>>
                      THEN lastLoad.fetches[i].answer.text
                      ELSE lastLoad.fetches[i].before
              /\ LegOf(lastLoad.transformation.vt, lastLoad.fetches[i].leg).leg.expression
                    = lastLoad.fetches[i].after

\* one call whose request leg could not be fetched and whose response leg
\* was
C27_Witness ==
    /\ lastLoad.op = "load"
    /\ lastLoad.call.op = "getVersionTransformation"
    /\ lastLoad.completion = "returned"
    /\ Len(lastLoad.fetches) = 2
    /\ lastLoad.fetches[1].answer.kind = "unavailable"
    /\ lastLoad.transformation.vt.request.leg.expression = RequestReference
    /\ lastLoad.fetches[2].answer.kind = "text"
    /\ lastLoad.transformation.vt.response.leg.expression = ShortSource

\* C28: what loadConfig and getVersionTransformation return is the document
\* as the loader cached it, whatever the callers did to the objects they
\* were handed before.
C28_ExclusiveOwnership ==
    (lastLoad.op = "load" /\ lastLoad.completion = "returned")
        => /\ lastLoad.config.defaultVersion = lastLoad.document.defaultVersion
           /\ (lastLoad.call.op = "getVersionTransformation" /\ lastLoad.transformation.found)
                 => lastLoad.transformation.vt.targetVersion
                      = lastLoad.document.transformations.map[lastLoad.call.version].targetVersion

\* C40: getCacheStats() reports the number of cached entries as size and
\* the capacity the transformer was constructed with as maxSize, and size
\* is at most maxSize.
C40_CacheStatsReal ==
    /\ GetCacheStats(cache).size = Len(cache)
    /\ GetCacheStats(cache).maxSize = maxSize
    /\ GetCacheStats(cache).size <= GetCacheStats(cache).maxSize

\* C39: a get leaves the cachedAt and the TTL of every entry it keeps as
\* they were, the entry it returns included, and returns nothing for an
\* entry whose age is above its TTL.
C39_HitKeepsLifetime ==
    [][lastCacheOp'.op = "get"
          => /\ \A i \in DOMAIN cache' :
                   \E j \in DOMAIN cache :
                       /\ cache[j].key = cache'[i].key
                       /\ cache[j].cachedAt = cache'[i].cachedAt
                       /\ cache[j].ttl = cache'[i].ttl
             /\ (lastCacheOp'.had /\ lastCacheOp'.age > lastCacheOp'.ttl)
                   => lastCacheOp'.result = NullExpr /\ ~lastCacheOp'.hasAfter]_vars

\* an entry that is a second old was returned by a get
C39_Witness ==
    /\ lastCacheOp.op = "get"
    /\ lastCacheOp.result # NullExpr
    /\ lastCacheOp.age > 0
    /\ lastCacheOp.hasAfter

\* the names of the headers of a request or a response
HeaderNames(headers) == DOMAIN headers

\* C31: the upstream request carries Content-Type: application/json exactly
\* when it carries a body, and always X-Request-ID, the request's id, and
\* X-Forwarded-For.
C31_ForwardedHeaders ==
    (Serving /\ gw.forwarded.issued)
        => /\ ("Content-Type" \in HeaderNames(gw.forwarded.headers)) <=> gw.forwarded.hasBody
           /\ gw.forwarded.hasBody => gw.forwarded.headers["Content-Type"] = "application/json"
           /\ {"X-Request-ID", "X-Forwarded-For"} \subseteq HeaderNames(gw.forwarded.headers)
           /\ gw.forwarded.headers["X-Request-ID"] = RequestId

\* a GET was forwarded without a body and without a Content-Type
C31_Witness ==
    /\ Serving
    /\ gw.forwarded.issued
    /\ gw.req.method = "GET"
    /\ ~gw.forwarded.hasBody
    /\ "Content-Type" \notin HeaderNames(gw.forwarded.headers)

\* C32: an upstream answer whose content type is not JSON is returned with
\* its body and status, its headers and the X-API-Version and X-Request-ID
\* headers, and the response leg is not run.
C32_NonJsonPassThrough ==
    (Served /\ gw.answer.kind = "response" /\ ~gw.answer.jsonContentType)
        => /\ gw.responseLeg = "none"
           /\ Positions("responseLeg") = {}
           /\ gw.completion = "returned"
           /\ gw.response.status = gw.answer.status
           /\ gw.response.body.kind = "stream"
           /\ gw.response.body.value = gw.answer.content
           /\ HeaderNames(gw.response.headers)
                 = HeaderNames(UpstreamHeaders(gw.answer)) \cup {"X-API-Version", "X-Request-ID"}
           /\ \A h \in HeaderNames(UpstreamHeaders(gw.answer)) :
                 gw.response.headers[h] = UpstreamHeaders(gw.answer)[h]
           /\ gw.response.headers["X-API-Version"] = gw.apiVersion
           /\ gw.response.headers["X-Request-ID"] = RequestId

\* a 404 that is no JSON came back for a request whose request leg ran
C32_Witness ==
    /\ Served
    /\ gw.answer = UpstreamResponse(StatusNotFound, FALSE, FALSE, TextValue)
    /\ gw.requestLeg = "succeeded"
    /\ gw.response.status = StatusNotFound
    /\ gw.response.body.value = TextValue

\* C33: in a request the upstream is called at most once, each leg runs at
\* most once, and a request that is over has got exactly one response.
C33_NoRetries ==
    Serving =>
        /\ Cardinality(Positions("fetchIssued")) <= 1
        /\ Cardinality(Positions("fetchDone")) <= 1
        /\ Cardinality(Positions("requestLeg")) <= 1
        /\ Cardinality(Positions("responseLeg")) <= 1
        /\ gw.responses = IF Served THEN 1 ELSE 0

\* a request whose request leg failed was answered, once
C33_Witness ==
    /\ Served
    /\ gw.requestLeg = "failed"
    /\ gw.trace = <<"requestLeg">>
    /\ gw.responses = 1

\* the same document but for the time it was generated at
SameDocument(a, b) == [a EXCEPT !.generatedAt = 0] = [b EXCEPT !.generatedAt = 0]

\* C35: within a request the configuration that gave the effective version,
\* the one isSupportedVersion looked at and the one the transformation was
\* taken from are the same document.
C35_SingleSnapshot ==
    Serving =>
        /\ gw.supported # "unknown" => SameDocument(gw.supportConfig, gw.config)
        /\ gw.vtConfig # NoTransformationsDoc => SameDocument(gw.vtConfig, gw.config)

\* C36: the defaultVersion of the configuration loadConfig returned is a key
\* of its transformations, and a request that declares no version is not
\* answered with the 400 "Unsupported API version".
C36_DefaultVersionSupported ==
    (Serving /\ gw.pc # "loadConfig")
        => /\ gw.config.defaultVersion \in DOMAIN gw.config.transformations.map
           /\ (Served /\ gw.context.apiVersion = "")
                 => gw.response.body.error # "Unsupported API version"

\* C37: a request is forwarded to the upstream only with an effective
\* version that getSupportedVersions lists for its path.
C37_RouteRestriction ==
    (Serving /\ gw.forwarded.issued)
        => \E i \in DOMAIN GetSupportedVersions(gw.supportConfig, gw.context.path) :
              GetSupportedVersions(gw.supportConfig, gw.context.path)[i] = gw.apiVersion

\* the JSON body of the request was parsed
BodyParsed(request) ==
    request.method \notin {"GET", "HEAD"} /\ request.jsonContentType /\ request.parses

\* C38: the upstream request of a request whose JSON body was parsed carries
\* a body: the parsed one when the request leg did not run, the leg's result
\* when it did.
C38_PresentBodyForwarded ==
    (Serving /\ gw.forwarded.issued /\ BodyParsed(gw.req))
        => /\ gw.forwarded.hasBody
           /\ gw.forwarded.body = gw.upstreamBody
           /\ gw.requestLeg = "none" => gw.forwarded.body = gw.req.content

\* C34: a loadConfig does not put the document of its read over the
\* document of a read that was issued and served after its own.
C34_LatestReadWins ==
    (lastLoad.op = "load" /\ lastLoad.read /\ lastLoad.overtaken /\ lastLoad.replaced.has)
        => SameDocument(cfgCache.config, lastLoad.replaced.config)

====
